---- MODULE Spec2Model ----
(***************************************************************************)
(* Verification model of the wbe rendering pipeline.                       *)
(*                                                                         *)
(*  Spec         the document state machine of browser/src/document.rs     *)
(*               (OwnedDocument::tick, ::invalidate_layout, ::take)        *)
(*  SpecBrowser  the driver of src/main.rs (Browser::go, ::tick, ::update) *)
(*  SpecTree     the tree constructor of html-parser/src/lib.rs            *)
(*  SpecStyle    the style resolver of style/src/lib.rs (resolve_styles)   *)
(*  SpecMatch    selector matching of style/src/lib.rs                     *)
(*  SpecBoxes    box generation of layout/src/lib.rs (anonymous boxes)     *)
(*  SpecLayout   block and inline layout of layout/src/lib.rs              *)
(*  SpecCss      the rule loop of css-parser/src/lib.rs (css_file)         *)
(*  SpecLexer    the tokenizer of html-lexer/src/lib.rs (html_token)       *)
(*                                                                         *)
(* Strings that the code inspects byte by byte (HTTP bodies, CSS text) are *)
(* sequences of byte values; strings that the code only compares are TLA+  *)
(* strings.                                                                *)
(***************************************************************************)
EXTENDS Integers, Sequences, FiniteSets, TLC

VARIABLES
    doc,            \* Spec: the OwnedDocument value held by the caller
    last,           \* Spec: the last operation, its collaborator replies and result
    okTicks,        \* Spec: successful ticks since the last navigation
    invalidated,    \* Spec: invalidate_layout stepped back since the last navigation
    location,       \* SpecBrowser: Browser.location
    document,       \* SpecBrowser: Browser.document (completed slot)
    next_document,  \* SpecBrowser: Browser.next_document (in-progress slot)
    viewport,       \* SpecBrowser: Browser.viewport
    pc,             \* SpecBrowser: position inside Browser::update
    seen,           \* SpecBrowser: what the last step did (tick result, request)
    nodes,          \* SpecTree: the node arena (Arc<RwLock<OwnedNode>> cells)
    stack,          \* SpecTree: parse_html's `stack`
    names_stack,    \* SpecTree: parse_html's `names_stack`
    parent,         \* SpecTree: parse_html's `parent`
    html,           \* SpecTree: parse_html's `html`
    css_files,      \* SpecTree: parse_html's `css_files`
    consumed,       \* SpecTree: number of tokens taken from the lexer
    token,          \* SpecTree: the token of the last turn of the loop
    dom_tree,       \* SpecStyle, SpecMatch: the node arena handed to the style crate
    rule_list,      \* SpecStyle: the rules handed to resolve_styles
    cursor,         \* SpecStyle: how many nodes of descendants() have been visited
    visited,        \* SpecStyle: the nodes whose style was set, in that order
    styling,        \* SpecStyle: "off", "running" or "returned"
    complex,        \* SpecMatch: the complex selector handed to match_complex
    candidate,      \* SpecMatch: the node handed to match_complex
    matched,        \* SpecMatch: "off", "asked" or the result of match_complex
    lay_dom,        \* SpecBoxes, SpecLayout: the styled node arena handed to layout
    layouts,        \* SpecBoxes, SpecLayout: the arena of OwnedLayout cells
    calls,          \* SpecBoxes, SpecLayout: the activations of Layout::f, innermost last
    dc_display_list,\* SpecBoxes, SpecLayout: DocumentContext.display_list
    ic,             \* SpecBoxes, SpecLayout: the InlineContext of the innermost f
    flushes,        \* SpecBoxes, SpecLayout: what each call of Layout::flush saw
    laying,         \* SpecBoxes, SpecLayout: "off", "running", "returned" or "panicked"
    css_text,       \* SpecCss: the text css_file was called on
    css_input,      \* SpecCss: css_file's `input`
    css_result,     \* SpecCss: css_file's `result`
    css_pc,         \* SpecCss: "off", "loop" or "returned"
    html_body,      \* SpecLexer: the response body parse_html was called on
    html_input,     \* SpecLexer: parse_html's `input`
    html_tokens,    \* SpecLexer: the tokens html_token returned, in order
    html_pc,        \* SpecLexer: "off", "loop", "returned", "error" or "panicked"
    outcome         \* SpecTree: "running", "returned" or "panicked"

docVars == <<doc, last, okTicks, invalidated>>
browserVars == <<location, document, next_document, viewport, pc, seen>>
treeVars == <<nodes, stack, names_stack, parent, html, css_files, consumed, token, outcome>>
styleVars == <<dom_tree, rule_list, cursor, visited, styling>>
matchVars == <<complex, candidate, matched>>
layoutVars == <<lay_dom, layouts, calls, dc_display_list, ic, flushes, laying>>
cssVars == <<css_text, css_input, css_result, css_pc>>
lexerVars == <<html_body, html_input, html_tokens, html_pc>>
vars == <<docVars, browserVars, treeVars, styleVars, matchVars, layoutVars, cssVars, lexerVars>>

----------------------------------------------------------------------------
(* Bounds *)

MaxDom == 2         \* elements in a parsed document (descendants of the root)
MaxViewport == 2    \* distinct valid viewports
MaxTicks == 5       \* successful ticks counted after one navigation
MaxTokens == 3      \* tokens the tree constructor takes from the lexer

----------------------------------------------------------------------------
(* Bytes and UTF-8 *)

Byte == 0..255

RECURSIVE Digits(_)
\* the decimal digits of n as ASCII bytes (Display for usize)
Digits(n) == IF n < 10 THEN <<48 + n>> ELSE Digits(n \div 10) \o <<48 + (n % 10)>>

IsCont(b) == b >= 128 /\ b <= 191

RECURSIVE Utf8Valid(_)
\* str::from_utf8 succeeds on the byte sequence b
Utf8Valid(b) ==
    IF b = <<>> THEN TRUE
    ELSE LET c == b[1]
             n == Len(b)
         IN  IF c < 128 THEN Utf8Valid(Tail(b))
             ELSE IF c >= 194 /\ c <= 223
                  THEN n >= 2 /\ IsCont(b[2]) /\ Utf8Valid(SubSeq(b, 3, n))
             ELSE IF c >= 224 /\ c <= 239
                  THEN /\ n >= 3
                       /\ IsCont(b[2]) /\ IsCont(b[3])
                       /\ (c = 224 => b[2] >= 160)
                       /\ (c = 237 => b[2] <= 159)
                       /\ Utf8Valid(SubSeq(b, 4, n))
             ELSE IF c >= 240 /\ c <= 244
                  THEN /\ n >= 4
                       /\ IsCont(b[2]) /\ IsCont(b[3]) /\ IsCont(b[4])
                       /\ (c = 240 => b[2] >= 144)
                       /\ (c = 244 => b[2] <= 143)
                       /\ Utf8Valid(SubSeq(b, 5, n))
             ELSE FALSE

\* "<h1>[http "
H1Http == <<60, 104, 49, 62, 91, 104, 116, 116, 112, 32>>
\* "]</h1>"
H1HttpEnd == <<93, 60, 47, 104, 49, 62>>
\* "<h1>[network error]</h1>"
H1NetworkError == <<60, 104, 49, 62, 91, 110, 101, 116, 119, 111, 114, 107, 32,
                    101, 114, 114, 111, 114, 93, 60, 47, 104, 49, 62>>

----------------------------------------------------------------------------
(* The HTTP collaborator: wbe_http::request returns Ok((status, headers,    *)
(* body)) or Err(error).  Its replies are inputs of the model.             *)

HttpOk(status, body) == [ok |-> TRUE, status |-> status, body |-> body]
HttpErr(error) == [ok |-> FALSE, error |-> error]

\* page bodies a server may send: "é" (two-byte UTF-8), a lone 0xFF, a
\* truncated two-byte sequence
PageBodies == { <<195, 169>>, <<255>>, <<195>> }
\* Display of a transport error: "dns"
TransportErrors == { <<100, 110, 115>> }
Statuses == {200, 204, 404, 500}

PageReplies ==
    {HttpOk(s, b) : s \in Statuses, b \in PageBodies}
        \cup {HttpErr(e) : e \in TransportErrors}

\* stylesheet bodies: "a{}", "1{}b{}c{" (a bad selector, then a rule, then a
\* rule without closing brace), a lone 0xFF
SheetBodies == { <<97, 123, 125>>, <<49, 123, 125, 98, 123, 125, 99, 123>>, <<255>> }

LinkReplies ==
    {HttpOk(200, b) : b \in SheetBodies}
        \cup {HttpOk(404, <<>>), HttpErr(<<100, 110, 115>>)}

----------------------------------------------------------------------------
(* CSS files over the alphabet letter, digit, `{`, `}`                     *)

IsAlpha(c) == (c >= 97 /\ c <= 122) \/ (c >= 65 /\ c <= 90)
IsAlnum(c) == IsAlpha(c) \/ (c >= 48 /\ c <= 57)

RECURSIVE IdentLen(_, _)
\* length of the longest prefix of s from position i on made of
\* alphanumerics (take_while of css_ident)
IdentLen(s, i) == IF i <= Len(s) /\ IsAlnum(s[i]) THEN 1 + IdentLen(s, i + 1) ELSE 0

\* css_rule on the alphabet: an identifier, `{`, `}`; the rule is named by
\* its selector.  Returns <<ok, rest, rule>>.
css_rule(s) ==
    IF s # <<>> /\ IsAlpha(s[1])
    THEN LET k == 1 + IdentLen(s, 2)
         IN  IF Len(s) >= k + 2 /\ s[k + 1] = 123 /\ s[k + 2] = 125
             THEN [ok |-> TRUE, rest |-> SubSeq(s, k + 3, Len(s)), rule |-> SubSeq(s, 1, k)]
             ELSE [ok |-> FALSE]
    ELSE [ok |-> FALSE]

\* mutant: the rest of the text is skipped along with the bad rule
rule_with_bad_selector_to_end(s) ==
    IF \E i \in 1..Len(s) : s[i] = 125
    THEN [ok |-> TRUE, rest |-> <<>>]
    ELSE [ok |-> FALSE]

\* rule_with_bad_selector: everything up to and including the next `}`
rule_with_bad_selector(s) ==
    IF \E i \in 1..Len(s) : s[i] = 125
    THEN LET i == CHOOSE j \in 1..Len(s) : s[j] = 125 /\ \A k \in 1..(j - 1) : s[k] # 125
         IN  [ok |-> TRUE, rest |-> SubSeq(s, i + 1, Len(s))]
    ELSE [ok |-> FALSE]

RECURSIVE css_file(_)
\* the rules of a file, in source order; never an error
css_file(s) ==
    IF s = <<>> THEN <<>>
    ELSE IF css_rule(s).ok THEN <<css_rule(s).rule>> \o css_file(css_rule(s).rest)
    ELSE IF rule_with_bad_selector(s).ok THEN css_file(rule_with_bad_selector(s).rest)
    ELSE <<>>

\* parse_css_file: Ok(rules) in both Ok arms; the Err arm needs css_file to fail
parse_css_file(text) == [ok |-> TRUE, rules |-> css_file(text)]

\* the bundled user-agent sheet html.css, here "u{}"
UaCss == <<117, 123, 125>>

----------------------------------------------------------------------------
(* DOM as the style phase sees it: the descendants of the root in document *)
(* order (Node::descendants is a pre-order walk), each with its name, its  *)
(* attribute list and its text content.                                    *)

Element(name, attrs, text) == [name |-> name, attrs |-> attrs, text |-> text]

\* Node::attr: the value of the first attribute with that name
RECURSIVE AttrFrom(_, _, _)
AttrFrom(attrs, name, i) ==
    IF i > Len(attrs) THEN [some |-> FALSE]
    ELSE IF attrs[i][1] = name THEN [some |-> TRUE, value |-> attrs[i][2]]
    ELSE AttrFrom(attrs, name, i + 1)
attr(node, name) == AttrFrom(node.attrs, name, 1)

\* str::split_ascii_whitespace on the rel values of the model
split_ascii_whitespace(s) ==
    CASE s = "stylesheet" -> <<"stylesheet">>
      [] s = "alternate STYLESHEET" -> <<"alternate", "STYLESHEET">>
      [] s = "icon" -> <<"icon">>
      [] OTHER -> <<s>>

\* str::eq_ignore_ascii_case(x, "stylesheet") on the words of the model
eq_ignore_ascii_case_stylesheet(x) == x \in {"stylesheet", "STYLESHEET", "StyleSheet"}

ElementPool ==
    { Element("link", << <<"rel", "stylesheet">>, <<"href", "a.css">> >>, <<>>),
      Element("link", << <<"rel", "alternate STYLESHEET">>, <<"href", "b.css">> >>, <<>>),
      Element("link", << <<"rel", "icon">>, <<"href", "a.css">> >>, <<>>),
      Element("link", << <<"rel", "stylesheet">> >>, <<>>),
      Element("style", <<>>, <<115, 123, 125>>),
      Element("style", <<>>, <<49, 123, 125, 116, 123, 125>>),
      Element("p", <<>>, <<>>) }

Hrefs == {"a.css", "b.css"}

SeqsUpTo(S, n) == UNION {[1..k -> S] : k \in 0..n}

\* a freshly parsed DOM: no computed style yet (Style::empty())
Dom(elements) == [nodes |-> elements, style |-> "empty"]
Doms == {Dom(e) : e \in SeqsUpTo(ElementPool, MaxDom)}

\* resolve_styles writes the computed styles into the nodes of the shared
\* tree; the styles are a function of the tree and of the rule list
resolve_styles(dom, rules) == [ok |-> TRUE, dom |-> [dom EXCEPT !.style = rules]]

----------------------------------------------------------------------------
(* OwnedDocument (browser/src/document.rs)                                 *)

None == [status |-> "None"]
Navigated(l) == [status |-> "Navigated", location |-> l]
Loaded(l, body) == [status |-> "Loaded", location |-> l, response_body |-> body]
Parsed(l, body, dom) ==
    [status |-> "Parsed", location |-> l, response_body |-> body, dom |-> dom]
Styled(l, body, dom) ==
    [status |-> "Styled", location |-> l, response_body |-> body, dom |-> dom]
LaidOut(l, body, dom, lay, vp) ==
    [status |-> "LaidOut", location |-> l, response_body |-> body, dom |-> dom,
     layout |-> lay, viewport |-> vp]

Ok(d) == [ok |-> TRUE, doc |-> d]
Err(e) == [ok |-> FALSE, error |-> e]

Locations == {"http://a/", "http://b/"}
Viewports == 1..MaxViewport

\* mutant: steps back to Parsed, as the older document.rs does
invalidate_layout_to_parsed(self) ==
    IF self.status = "LaidOut"
    THEN Parsed(self.location, self.response_body, self.dom)
    ELSE self

invalidate_layout(self) ==
    IF self.status = "LaidOut"
    THEN Styled(self.location, self.response_body, self.dom)
    ELSE self

\* mutant: a transport error aborts the load (request(..)? instead of the match)
load_aborting(l, http) ==
    IF ~http.ok THEN Err("http")
    ELSE LET body == IF http.status \in {200, 204} THEN http.body
                     ELSE H1Http \o Digits(http.status) \o H1HttpEnd
         IN  IF Utf8Valid(body) THEN Ok(Loaded(l, body)) ELSE Err("utf8")

\* OwnedDocument::load; `http` is the reply of wbe_http::request(&location, None)
load(l, http) ==
    LET body == IF http.ok /\ http.status \in {200, 204} THEN http.body
                ELSE IF http.ok THEN H1Http \o Digits(http.status) \o H1HttpEnd
                ELSE H1NetworkError \o http.error
    IN  IF Utf8Valid(body) THEN Ok(Loaded(l, body)) ELSE Err("utf8")

\* OwnedDocument::parse; `parsed` is the result of parse_html(&response_body)
parse(l, body, parsed) ==
    IF parsed.ok THEN Ok(Parsed(l, body, parsed.dom)) ELSE Err("parse")

\* the filter of the first loop of OwnedDocument::style
IsStylesheetLink(x) ==
    /\ x.name = "link"
    /\ attr(x, "rel").some
    /\ \E i \in DOMAIN split_ascii_whitespace(attr(x, "rel").value) :
          eq_ignore_ascii_case_stylesheet(split_ascii_whitespace(attr(x, "rel").value)[i])

IsStyleElement(x) == x.name = "style"

HasHref(x) == attr(x, "href").some

\* the links for which request_link is called, in the order of the calls
RequestedLinks(dom) == SelectSeq(SelectSeq(dom.nodes, IsStylesheetLink), HasHref)

\* request_link; `http` is the reply of request(href, Some(base))
request_link(http) ==
    IF http.ok
    THEN IF http.status = 200
         THEN IF Utf8Valid(http.body) THEN [ok |-> TRUE, text |-> http.body]
              ELSE [ok |-> FALSE]
         ELSE [ok |-> FALSE]
    ELSE [ok |-> FALSE]

RECURSIVE LinkRules_aborting(_, _)
\* mutant: a failed request_link aborts the phase (request_link(..)?)
LinkRules_aborting(replies, n) ==
    IF n = 0 THEN [ok |-> TRUE, rules |-> <<>>]
    ELSE LET before == LinkRules_aborting(replies, n - 1)
             r == request_link(replies[n])
         IN  IF ~before.ok THEN before
             ELSE IF r.ok
                  THEN [ok |-> TRUE, rules |-> before.rules \o parse_css_file(r.text).rules]
             ELSE [ok |-> FALSE]

RECURSIVE LinkRules(_, _)
\* the first loop of style: the rules appended for the first n requested
\* links; ok is FALSE when a parse_css_file(..)? returned early
LinkRules(replies, n) ==
    IF n = 0 THEN [ok |-> TRUE, rules |-> <<>>]
    ELSE LET before == LinkRules(replies, n - 1)
             r == request_link(replies[n])
         IN  IF ~before.ok THEN before
             ELSE IF r.ok
                  THEN IF parse_css_file(r.text).ok
                       THEN [ok |-> TRUE,
                             rules |-> before.rules \o parse_css_file(r.text).rules]
                       ELSE [ok |-> FALSE]
             ELSE before

RECURSIVE StyleRules(_, _)
\* the second loop of style, over the first n style elements
StyleRules(elements, n) ==
    IF n = 0 THEN [ok |-> TRUE, rules |-> <<>>]
    ELSE LET before == StyleRules(elements, n - 1)
             f == parse_css_file(elements[n].text)
         IN  IF ~before.ok THEN before
             ELSE IF f.ok THEN [ok |-> TRUE, rules |-> before.rules \o f.rules]
             ELSE [ok |-> FALSE]

\* mutant: the style elements are read before the links
style_inline_first(l, body, dom, replies) ==
    LET ua == parse_css_file(UaCss)
        links == LinkRules(replies, Len(RequestedLinks(dom)))
        styles == StyleRules(SelectSeq(dom.nodes, IsStyleElement),
                             Len(SelectSeq(dom.nodes, IsStyleElement)))
    IN  IF ~ua.ok \/ ~links.ok \/ ~styles.ok THEN Err("css")
        ELSE Ok(Styled(l, body,
                       resolve_styles(dom, ua.rules \o styles.rules \o links.rules).dom))

\* OwnedDocument::style; replies[i] is the reply to the i-th request_link
style(l, body, dom, replies) ==
    LET ua == parse_css_file(UaCss)
        links == LinkRules(replies, Len(RequestedLinks(dom)))
        styles == StyleRules(SelectSeq(dom.nodes, IsStyleElement),
                             Len(SelectSeq(dom.nodes, IsStyleElement)))
    IN  IF ~ua.ok \/ ~links.ok \/ ~styles.ok THEN Err("css")
        ELSE LET css_rules == ua.rules \o links.rules \o styles.rules
                 resolved == resolve_styles(dom, css_rules)
             IN  IF resolved.ok THEN Ok(Styled(l, body, resolved.dom)) ELSE Err("style")

\* Layout::with_node(dom, viewport.rect.width()) followed by layout(&viewport):
\* the layout tree is computed from the styled tree and the viewport
Layout(dom, vp) == [of |-> dom, viewport |-> vp]

\* OwnedDocument::layout; layout_ok is the result of Layout::layout
layout(vp, l, body, dom, layout_ok) ==
    IF layout_ok THEN Ok(LaidOut(l, body, dom, Layout(dom, vp), vp)) ELSE Err("layout")

\* mutant: the Loaded arm falls through into the style phase
tick_two_phases(self, vp, env) ==
    CASE self.status = "None" -> Ok(self)
      [] self.status = "Navigated" -> load(self.location, env.http)
      [] self.status = "Loaded" ->
            IF parse(self.location, self.response_body, env.parsed).ok
            THEN style(self.location, self.response_body, env.parsed.dom,
                       [i \in 1..Len(RequestedLinks(env.parsed.dom)) |-> HttpOk(404, <<>>)])
            ELSE Err("parse")
      [] self.status = "Parsed" ->
            style(self.location, self.response_body, self.dom, env.links)
      [] self.status = "Styled" ->
            layout(vp, self.location, self.response_body, self.dom, env.layout_ok)
      [] self.status = "LaidOut" -> Ok(self)

\* OwnedDocument::tick; env holds the replies of the collaborators of the phase
tick(self, vp, env) ==
    CASE self.status = "None" -> Ok(self)
      [] self.status = "Navigated" -> load(self.location, env.http)
      [] self.status = "Loaded" -> parse(self.location, self.response_body, env.parsed)
      [] self.status = "Parsed" ->
            style(self.location, self.response_body, self.dom, env.links)
      [] self.status = "Styled" ->
            layout(vp, self.location, self.response_body, self.dom, env.layout_ok)
      [] self.status = "LaidOut" -> Ok(self)

\* the collaborator replies a tick from state d can meet
TickEnvs(d) ==
    CASE d.status = "Navigated" -> {[http |-> r] : r \in PageReplies}
      [] d.status = "Loaded" ->
            {[parsed |-> [ok |-> FALSE]]} \cup {[parsed |-> [ok |-> TRUE, dom |-> t]] : t \in Doms}
      [] d.status = "Parsed" ->
            {[links |-> f] : f \in [1..Len(RequestedLinks(d.dom)) -> LinkReplies]}
      [] d.status = "Styled" -> {[layout_ok |-> b] : b \in BOOLEAN}
      [] OTHER -> {[none |-> TRUE]}

----------------------------------------------------------------------------
(* Spec: a caller that holds one OwnedDocument and drives it               *)

IdleDoc ==
    /\ doc = None
    /\ last = [op |-> "idle"]
    /\ okTicks = 0
    /\ invalidated = FALSE

InitDoc ==
    /\ doc = None
    /\ last = [op |-> "new"]
    /\ okTicks = 0
    /\ invalidated = FALSE

\* OwnedDocument::Navigated { location }
Navigate ==
    \E l \in Locations :
        /\ doc' = Navigated(l)
        /\ last' = [op |-> "navigate"]
        /\ okTicks' = 0
        /\ invalidated' = FALSE
        /\ UNCHANGED <<browserVars, treeVars, styleVars, matchVars, layoutVars, cssVars, lexerVars>>

\* doc = doc.take().tick(viewport)?  -- take leaves None behind, and the `?`
\* returns before the assignment when the tick fails
Tick ==
    /\ okTicks < MaxTicks
    /\ \E vp \in Viewports, env \in TickEnvs(doc) :
          LET r == tick(doc, vp, env)
          IN  /\ doc' = IF r.ok THEN r.doc ELSE None
              /\ last' = [op |-> "tick", self |-> doc, viewport |-> vp, env |-> env,
                          ok |-> r.ok]
              /\ okTicks' = IF r.ok /\ doc.status # "None" THEN okTicks + 1 ELSE okTicks
    /\ UNCHANGED <<invalidated, browserVars, treeVars, styleVars, matchVars, layoutVars, cssVars, lexerVars>>

\* doc = doc.invalidate_layout()
InvalidateLayout ==
    /\ doc' = invalidate_layout(doc)
    /\ last' = [op |-> "invalidate_layout", self |-> doc,
                twice |-> (last.op = "invalidate_layout" /\ last.self.status = "LaidOut")]
    /\ invalidated' = (invalidated \/ doc.status = "LaidOut")
    /\ UNCHANGED <<okTicks, browserVars, treeVars, styleVars, matchVars, layoutVars, cssVars, lexerVars>>

----------------------------------------------------------------------------
(* Browser (src/main.rs): a single-threaded driver.  eframe calls update   *)
(* once per frame; update ticks, runs the location bar, then compares the  *)
(* viewport of the completed document with the current one.               *)

\* ViewportInfo::default(): rect and scale are NaN
NaNViewport == 0
BrowserViewports == {NaNViewport} \cup Viewports

\* derived PartialEq of ViewportInfo over f32: NaN is equal to nothing
ViewportEq(a, b) == a # NaNViewport /\ b # NaNViewport /\ a = b

\* Document::LaidOut of main.rs carries a display list instead of a layout tree
PaintedOut(l, body, dom, display_list, vp) ==
    [status |-> "LaidOut", location |-> l, response_body |-> body, dom |-> dom,
     display_list |-> display_list, viewport |-> vp]

\* what the server at url serves: "a" at http://a/, "b" at http://b/
PageOf(url) == IF url = "http://a/" THEN <<97>> ELSE <<98>>

\* replies of http::request(&url) of the old client: Ok((headers, body)) or Err
BrowserReplies(url) ==
    {[ok |-> TRUE, body |-> PageOf(url)], [ok |-> TRUE, body |-> <<255>>], [ok |-> FALSE]}

\* mutant: steps back to Loaded, so that the body is parsed again
document_invalidate_layout_reparse(self) ==
    IF self.status = "LaidOut"
    THEN Loaded(self.location, self.response_body)
    ELSE self

\* Document::invalidate_layout of the wbe crate
document_invalidate_layout(self) ==
    IF self.status = "LaidOut"
    THEN Parsed(self.location, self.response_body, self.dom)
    ELSE self

\* mutant: go does not replace a document that is in progress
Browser_go_keep(b) ==
    IF b.next_document.status = "None" THEN Navigated(b.location) ELSE b.next_document

\* Browser::go: the new value of next_document
Browser_go(b) == Navigated(b.location)

\* Browser::load; http is the reply of http::request(&self.location)
Browser_load(self_location, l, http) ==
    IF ~http.ok THEN Err("http")
    ELSE IF Utf8Valid(http.body) THEN Ok(Loaded(l, http.body))
    ELSE Err("utf8")

\* Browser::parse; the tree is built from the body, parse_ok is FALSE when
\* html_token fails
Browser_parse(l, body, parse_ok) ==
    IF parse_ok THEN Ok(Parsed(l, body, [of |-> body])) ELSE Err("parse")

\* Browser::layout; lays out against self.viewport, font_ok is FALSE when
\* FontInfo::new fails
Browser_layout(self_viewport, l, body, dom, font_ok) ==
    IF font_ok
    THEN Ok(PaintedOut(l, body, dom, [of |-> dom, viewport |-> self_viewport],
                       self_viewport))
    ELSE Err("font")

\* mutant: the swap into the completed slot tests for Parsed as well
Browser_tick_early(b, env) ==
    LET taken == b.next_document
        r == CASE taken.status = "Navigated" ->
                    Browser_load(b.location, taken.location, env.http)
               [] taken.status = "Loaded" ->
                    Browser_parse(taken.location, taken.response_body, env.parse_ok)
               [] taken.status = "Parsed" ->
                    Browser_layout(b.viewport, taken.location, taken.response_body,
                                   taken.dom, env.font_ok)
               [] OTHER -> Ok(taken)
    IN  IF taken.status = "None"
        THEN [ok |-> TRUE, document |-> b.document, next_document |-> None]
        ELSE IF ~r.ok
        THEN [ok |-> FALSE, document |-> b.document, next_document |-> None]
        ELSE IF r.doc.status \in {"Parsed", "LaidOut"}
        THEN [ok |-> TRUE, document |-> r.doc, next_document |-> None]
        ELSE [ok |-> TRUE, document |-> b.document, next_document |-> r.doc]

\* Browser::tick on the fields it touches; returns the new slots and whether
\* it returned Ok(())
Browser_tick(b, env) ==
    LET taken == b.next_document
        r == CASE taken.status = "Navigated" ->
                    Browser_load(b.location, taken.location, env.http)
               [] taken.status = "Loaded" ->
                    Browser_parse(taken.location, taken.response_body, env.parse_ok)
               [] taken.status = "Parsed" ->
                    Browser_layout(b.viewport, taken.location, taken.response_body,
                                   taken.dom, env.font_ok)
               [] OTHER -> Ok(taken)
    IN  IF taken.status = "None"
        THEN [ok |-> TRUE, document |-> b.document, next_document |-> None]
        ELSE IF ~r.ok
        THEN [ok |-> FALSE, document |-> b.document, next_document |-> None]
        ELSE IF r.doc.status = "LaidOut"
        THEN [ok |-> TRUE, document |-> r.doc, next_document |-> None]
        ELSE [ok |-> TRUE, document |-> b.document, next_document |-> r.doc]

BrowserEnvs(b) ==
    CASE b.next_document.status = "Navigated" ->
            {[http |-> r] : r \in BrowserReplies(b.location)}
      [] b.next_document.status = "Loaded" -> {[parse_ok |-> x] : x \in BOOLEAN}
      [] b.next_document.status = "Parsed" -> {[font_ok |-> x] : x \in BOOLEAN}
      [] OTHER -> {[none |-> TRUE]}

Browser ==
    [location |-> location, document |-> document, next_document |-> next_document,
     viewport |-> viewport]

IdleBrowser ==
    /\ location = "http://a/"
    /\ document = None
    /\ next_document = None
    /\ viewport = NaNViewport
    /\ pc = "off"
    /\ seen = [step |-> "idle"]

\* main: Browser { location, ..Default::default() }, then browser.go()
InitBrowser ==
    /\ location \in Locations
    /\ document = None
    /\ next_document = Browser_go([location |-> location, next_document |-> None])
    /\ viewport = NaNViewport
    /\ pc = "tick"
    /\ seen = [step |-> "go"]

\* update, first statement: if let Err(e) = self.tick() { panic!() }
UpdateTick ==
    /\ pc = "tick"
    /\ \E env \in BrowserEnvs(Browser) :
          LET r == Browser_tick(Browser, env)
          IN  /\ document' = r.document
              /\ next_document' = r.next_document
              /\ pc' = IF r.ok THEN "ui" ELSE "panicked"
              /\ seen' = [step |-> "tick", ok |-> r.ok, taken |-> next_document,
                          env |-> env, relayout |-> FALSE, old |-> NaNViewport]
    /\ UNCHANGED <<location, viewport, docVars, treeVars, styleVars, matchVars, layoutVars, cssVars, lexerVars>>

\* update, the location bar: the go button, then the text field
UpdateLocationBar ==
    /\ pc = "ui"
    /\ \E clicked \in BOOLEAN, edited \in Locations :
          /\ next_document' = IF clicked THEN Browser_go(Browser) ELSE next_document
          /\ location' = edited
          /\ seen' = [step |-> "ui", clicked |-> clicked, pending |-> next_document]
    /\ pc' = "viewport"
    /\ UNCHANGED <<document, viewport, docVars, treeVars, styleVars, matchVars, layoutVars, cssVars, lexerVars>>

\* update, the central panel: only when the completed document is LaidOut is
\* self.viewport refreshed and compared with the document's; on a mismatch
\* the layout is invalidated and the second self.tick() follows
UpdateViewport ==
    /\ pc = "viewport"
    /\ IF document.status = "LaidOut"
       THEN \E v \in Viewports :
              /\ viewport' = v
              /\ IF ~ViewportEq(document.viewport, v)
                 THEN /\ IF next_document.status = "None"
                         THEN /\ next_document' = document_invalidate_layout(document)
                              /\ document' = None
                         ELSE /\ next_document' = document_invalidate_layout(next_document)
                              /\ document' = document
                      /\ pc' = "relayout"
                      /\ seen' = [step |-> "viewport", changed |-> TRUE,
                                  pending |-> next_document, old |-> document.viewport]
                 ELSE /\ pc' = "tick"
                      /\ seen' = [step |-> "viewport", changed |-> FALSE]
                      /\ UNCHANGED <<document, next_document>>
       ELSE /\ pc' = "tick"
            /\ seen' = [step |-> "viewport", changed |-> FALSE]
            /\ UNCHANGED <<document, next_document, viewport>>
    /\ UNCHANGED <<location, docVars, treeVars, styleVars, matchVars, layoutVars, cssVars, lexerVars>>

\* update, after a viewport mismatch: if let Err(e) = self.tick() { panic!() }
UpdateRelayout ==
    /\ pc = "relayout"
    /\ \E env \in BrowserEnvs(Browser) :
          LET r == Browser_tick(Browser, env)
          IN  /\ document' = r.document
              /\ next_document' = r.next_document
              /\ pc' = IF r.ok THEN "tick" ELSE "panicked"
              /\ seen' = [step |-> "tick", ok |-> r.ok, taken |-> next_document,
                          env |-> env, relayout |-> TRUE, old |-> seen.old]
    /\ UNCHANGED <<location, viewport, docVars, treeVars, styleVars, matchVars, layoutVars, cssVars, lexerVars>>

----------------------------------------------------------------------------
(* The tree constructor (html-parser/src/lib.rs) over the node arena of    *)
(* dom/src/lib.rs.  A node is a cell of `nodes`; a Node handle is its      *)
(* index; parent = 0 is the empty Weak.                                    *)

\* ([if the child is one of these], [the stack must not end with this sequence])
NO_NEST ==
    << <<{"p", "table", "form", "h1", "h2", "h3", "h4", "h5", "h6"}, <<"p">> >>,
       <<{"li"}, <<"li">> >>,
       <<{"dt", "dd"}, <<"dt">> >>,
       <<{"dt", "dd"}, <<"dd">> >>,
       <<{"tr"}, <<"tr">> >>,
       <<{"tr"}, <<"tr", "td">> >>,
       <<{"tr"}, <<"tr", "th">> >>,
       <<{"td", "th"}, <<"td">> >>,
       <<{"td", "th"}, <<"th">> >> >>

\* mutant: br is missing from the list
SELF_CLOSING_without_br ==
    {"!doctype", "area", "base", "col", "embed", "hr", "img", "input", "link",
     "meta", "param", "source", "track", "wbr"}

SELF_CLOSING ==
    {"!doctype", "area", "base", "br", "col", "embed", "hr", "img", "input", "link",
     "meta", "param", "source", "track", "wbr"}

\* tag names the lexer hands over, in the case of the input
StartTagNames == {"html", "p", "P", "h1", "li", "dt", "dd", "tr", "td", "br", "BR", "div"}
EndTagNames == {"p", "P", "tr", "div", "b"}
\* start tags: every name without attributes, and one tag with an attribute
\* whose name is in upper case in the input
StartTags ==
    {[name |-> n, attrs |-> <<>>] : n \in StartTagNames}
        \cup {[name |-> "div", attrs |-> << <<"ID", "x">> >>]}

\* u8::to_ascii_lowercase over the names of the model
to_ascii_lowercase(name) ==
    CASE name = "P" -> "p"
      [] name = "BR" -> "br"
      [] name = "ID" -> "id"
      [] OTHER -> name
eq_ignore_ascii_case(x, y) == to_ascii_lowercase(x) = to_ascii_lowercase(y)

\* Node::new
OwnedNode(type, name) ==
    [type |-> type, name |-> name, attrs |-> <<>>, parent |-> 0, children |-> <<>>]

\* Node::element
element(name, attrs) == [OwnedNode("Element", name) EXCEPT !.attrs = attrs]

\* mutant: append pushes the child without setting its parent link
append_without_parent(ns, p, c) == [ns EXCEPT ![p].children = Append(@, c)]

\* Node::append with one child: child.parent = downgrade(self); self.children.push(child)
append(ns, p, c) == [[ns EXCEPT ![c].parent = p] EXCEPT ![p].children = Append(@, c)]

\* Vec::ends_with
ends_with(q, suffix) ==
    /\ Len(q) >= Len(suffix)
    /\ SubSeq(q, Len(q) - Len(suffix) + 1, Len(q)) = suffix

RECURSIVE Pop(_, _)
\* k rounds of stack.pop(); names_stack.pop(); parent = parent.parent().unwrap()
\* on st = [stack, names_stack, parent, nodes, ok]; ok is FALSE when an unwrap panics
Pop(st, k) ==
    IF k = 0 \/ ~st.ok THEN st
    ELSE IF st.stack = <<>> \/ st.names_stack = <<>> \/ st.nodes[st.parent].parent = 0
    THEN [st EXCEPT !.ok = FALSE]
    ELSE Pop([st EXCEPT !.stack = SubSeq(@, 1, Len(@) - 1),
                        !.names_stack = SubSeq(@, 1, Len(@) - 1),
                        !.parent = st.nodes[st.parent].parent], k - 1)

RECURSIVE NoNest_pop_one(_, _, _)
\* mutant: a matching entry pops one element instead of suffix.len()
NoNest_pop_one(st, name, i) ==
    IF i > Len(NO_NEST) THEN st
    ELSE IF name \in NO_NEST[i][1] /\ ends_with(st.names_stack, NO_NEST[i][2])
    THEN NoNest_pop_one(Pop(st, 1), name, i + 1)
    ELSE NoNest_pop_one(st, name, i + 1)

RECURSIVE NoNest(_, _, _)
\* the loop over NO_NEST for the start tag `name`, entries i..Len(NO_NEST)
NoNest(st, name, i) ==
    IF i > Len(NO_NEST) THEN st
    ELSE IF name \in NO_NEST[i][1] /\ ends_with(st.names_stack, NO_NEST[i][2])
    THEN NoNest(Pop(st, Len(NO_NEST[i][2])), name, i + 1)
    ELSE NoNest(st, name, i + 1)

\* mutant: find instead of rfind, the outermost matching element
Find(q, name) ==
    IF \E i \in DOMAIN q : eq_ignore_ascii_case(q[i], name)
    THEN CHOOSE i \in DOMAIN q :
            /\ eq_ignore_ascii_case(q[i], name)
            /\ \A j \in DOMAIN q : eq_ignore_ascii_case(q[j], name) => j >= i
    ELSE 0

\* the index found by names_stack.iter().enumerate().rfind(..), 0 for None
RFind(q, name) ==
    IF \E i \in DOMAIN q : eq_ignore_ascii_case(q[i], name)
    THEN CHOOSE i \in DOMAIN q :
            /\ eq_ignore_ascii_case(q[i], name)
            /\ \A j \in DOMAIN q : eq_ignore_ascii_case(q[j], name) => j <= i
    ELSE 0

ParserState ==
    [stack |-> stack, names_stack |-> names_stack, parent |-> parent, nodes |-> nodes,
     ok |-> TRUE]

IdleTree ==
    /\ nodes = <<>>
    /\ stack = <<>>
    /\ names_stack = <<>>
    /\ parent = 0
    /\ html = 0
    /\ css_files = <<>>
    /\ consumed = 0
    /\ token = [kind |-> "none"]
    /\ outcome = "off"

\* parse_html up to the loop: the Document node is on the stack
InitTree ==
    /\ nodes = <<OwnedNode("Document", "#document")>>
    /\ stack = <<1>>
    /\ names_stack = <<>>
    /\ parent = 1
    /\ html = 0
    /\ css_files = <<>>
    /\ consumed = 0
    /\ token = [kind |-> "none"]
    /\ outcome = "running"

MoreInput == outcome = "running" /\ consumed < MaxTokens

\* HtmlToken::Comment
TokenComment ==
    /\ MoreInput
    /\ nodes' = append(Append(nodes, OwnedNode("Comment", "#comment")), parent,
                       Len(nodes) + 1)
    /\ consumed' = consumed + 1
    /\ token' = [kind |-> "Comment"]
    /\ UNCHANGED <<stack, names_stack, parent, html, css_files, outcome>>
    /\ UNCHANGED <<docVars, browserVars, styleVars, matchVars, layoutVars, cssVars, lexerVars>>

\* HtmlToken::Text
TokenText ==
    /\ MoreInput
    /\ nodes' = append(Append(nodes, OwnedNode("Text", "#text")), parent, Len(nodes) + 1)
    /\ consumed' = consumed + 1
    /\ token' = [kind |-> "Text"]
    /\ UNCHANGED <<stack, names_stack, parent, html, css_files, outcome>>
    /\ UNCHANGED <<docVars, browserVars, styleVars, matchVars, layoutVars, cssVars, lexerVars>>

\* an element `name` with one Text child, appended to the current parent
WithRawText(ns, p, name) ==
    LET e == Len(ns) + 1
        t == Len(ns) + 2
        made == Append(Append(ns, element(name, <<>>)), OwnedNode("Text", "#text"))
    IN  append(append(made, e, t), p, e)

\* HtmlToken::Script
TokenScript ==
    /\ MoreInput
    /\ nodes' = WithRawText(nodes, parent, "script")
    /\ consumed' = consumed + 1
    /\ token' = [kind |-> "Script"]
    /\ UNCHANGED <<stack, names_stack, parent, html, css_files, outcome>>
    /\ UNCHANGED <<docVars, browserVars, styleVars, matchVars, layoutVars, cssVars, lexerVars>>

\* HtmlToken::Style: after the append, html.clone().unwrap() panics when no
\* html start tag has been seen (css_file always returns Ok)
TokenStyle ==
    /\ MoreInput
    /\ nodes' = WithRawText(nodes, parent, "style")
    /\ consumed' = consumed + 1
    /\ token' = [kind |-> "Style"]
    /\ IF html = 0
       THEN outcome' = "panicked" /\ UNCHANGED css_files
       ELSE outcome' = outcome /\ css_files' = Append(css_files, "css")
    /\ UNCHANGED <<stack, names_stack, parent, html>>
    /\ UNCHANGED <<docVars, browserVars, styleVars, matchVars, layoutVars, cssVars, lexerVars>>

\* HtmlToken::Tag(false, name, attrs)
TokenStartTag ==
    /\ MoreInput
    /\ \E tag \in StartTags :
          LET name == tag.name
              e == Len(nodes) + 1
              made == [ParserState EXCEPT !.nodes = Append(@, element(name, tag.attrs))]
              st == NoNest(made, name, 1)
          IN  /\ token' = [kind |-> "Tag", closing |-> FALSE, name |-> name,
                            attrs |-> tag.attrs]
              /\ IF ~st.ok
                 THEN /\ outcome' = "panicked"
                      /\ nodes' = st.nodes
                      /\ UNCHANGED <<stack, names_stack, parent, html>>
                 ELSE /\ outcome' = outcome
                      /\ html' = IF name = "html" THEN e ELSE html
                      /\ nodes' = append(st.nodes, st.parent, e)
                      /\ IF name \notin SELF_CLOSING
                         THEN /\ stack' = Append(st.stack, e)
                              /\ names_stack' = Append(st.names_stack, name)
                              /\ parent' = e
                         ELSE /\ stack' = st.stack
                              /\ names_stack' = st.names_stack
                              /\ parent' = st.parent
    /\ consumed' = consumed + 1
    /\ UNCHANGED css_files
    /\ UNCHANGED <<docVars, browserVars, styleVars, matchVars, layoutVars, cssVars, lexerVars>>

\* HtmlToken::Tag(true, name, _)
TokenEndTag ==
    /\ MoreInput
    /\ \E name \in EndTagNames :
          LET i == RFind(names_stack, name)
              st == IF i = 0 THEN ParserState
                    ELSE Pop(ParserState, Len(names_stack) - i + 1)
          IN  /\ token' = [kind |-> "Tag", closing |-> TRUE, name |-> name]
              /\ outcome' = IF st.ok THEN outcome ELSE "panicked"
              /\ stack' = st.stack
              /\ names_stack' = st.names_stack
              /\ parent' = st.parent
    /\ consumed' = consumed + 1
    /\ UNCHANGED <<nodes, html, css_files>>
    /\ UNCHANGED <<docVars, browserVars, styleVars, matchVars, layoutVars, cssVars, lexerVars>>

\* html_token returned Err: bail!
TokenError ==
    /\ MoreInput
    /\ outcome' = "error"
    /\ UNCHANGED <<nodes, stack, names_stack, parent, html, css_files, consumed, token>>
    /\ UNCHANGED <<docVars, browserVars, styleVars, matchVars, layoutVars, cssVars, lexerVars>>

\* input.is_empty(): Ok(stack[0].clone())
EndOfInput ==
    /\ outcome = "running"
    /\ outcome' = "returned"
    /\ UNCHANGED <<nodes, stack, names_stack, parent, html, css_files, consumed, token>>
    /\ UNCHANGED <<docVars, browserVars, styleVars, matchVars, layoutVars, cssVars, lexerVars>>

----------------------------------------------------------------------------
(* Computed styles (dom/src/style.rs) and the style resolver               *)
(* (style/src/lib.rs).  Option<T> is a sequence of length 0 or 1.  Of the  *)
(* properties of apply_declarations the model has display, font-size,      *)
(* font-weight, font-style and color; f32 values are integers.             *)

Nothing == <<>>
SomeOf(x) == <<x>>
IsSome(o) == o # <<>>
Unwrap(o) == o[1]

FONT_SIZE == 16

\* CssFont::none, CssFont::initial
CssFont_none == [size |-> Nothing, style |-> Nothing, weight |-> Nothing]
CssFont_initial ==
    [size |-> SomeOf(FONT_SIZE), style |-> SomeOf("Normal"), weight |-> SomeOf("Normal")]

\* Style::empty, INITIAL_STYLE
Style_empty == [display |-> Nothing, font |-> Nothing, color |-> Nothing]
INITIAL_STYLE ==
    [display |-> SomeOf("inline"), font |-> SomeOf(CssFont_initial), color |-> SomeOf("black")]

\* mutant: nothing is inherited
new_inherited_nothing(self) == INITIAL_STYLE

\* Style::new_inherited: font and color of self, the rest initial
new_inherited(self) == [INITIAL_STYLE EXCEPT !.font = self.font, !.color = self.color]

\* Style::get over a part of the font: the part of self's font when self has
\* a font, else that of the initial font; then the initial value for None
FontPart(self, part) ==
    LET got == IF IsSome(self.font) THEN Unwrap(self.font)[part]
               ELSE Unwrap(INITIAL_STYLE.font)[part]
    IN  IF IsSome(got) THEN Unwrap(got) ELSE Unwrap(CssFont_initial[part])
font_size(self) == FontPart(self, "size")
font_style(self) == FontPart(self, "style")
font_weight(self) == FontPart(self, "weight")
\* Style::color
color_of(self) == IF IsSome(self.color) THEN Unwrap(self.color) ELSE Unwrap(INITIAL_STYLE.color)

\* CssLength::parse on the values of the model
CssLength_parse(value) ==
    CASE value = "20px" -> SomeOf([unit |-> "Px", x |-> 20])
      [] value = "2em" -> SomeOf([unit |-> "Em", x |-> 2])
      [] value = "0" -> SomeOf([unit |-> "Zero", x |-> 0])
      [] OTHER -> Nothing

\* CssLength::resolve
CssLength_resolve(self, percent_base, em_base) ==
    CASE self.unit = "Zero" -> 0
      [] self.unit = "Percent" -> (self.x * percent_base) \div 100
      [] self.unit = "Px" -> self.x
      [] self.unit = "Em" -> self.x * em_base

\* CssColor::parse on the values of the model
CssColor_parse(value) ==
    CASE value = "currentColor" -> SomeOf([kind |-> "CurrentColor"])
      [] value \in {"red", "green", "blue"} -> SomeOf([kind |-> "Other", rgba |-> value])
      [] OTHER -> Nothing

\* CssColor::resolve
CssColor_resolve(self, current_color) ==
    IF self.kind = "CurrentColor" THEN current_color ELSE self.rgba

\* one turn of the loop of apply_declarations over (name, value); property
\* is the filter (Nothing for None)
apply_declaration(st, parent_style, property, decl) ==
    LET name == decl[1]
        value == decl[2]
        \* style.font.take().unwrap_or_else(|| CssFont::none())
        taken == IF IsSome(st.font) THEN Unwrap(st.font) ELSE CssFont_none
        without_font == [st EXCEPT !.font = Nothing]
    IN  IF IsSome(property) /\ Unwrap(property) # name THEN st
        ELSE CASE name = "display" -> [st EXCEPT !.display = SomeOf(value)]
               [] name = "font-size" ->
                    LET parsed == CssLength_parse(value)
                        size == IF IsSome(parsed)
                                THEN CssLength_resolve(Unwrap(parsed), font_size(parent_style),
                                                       font_size(parent_style))
                                ELSE font_size(parent_style)
                    IN  [st EXCEPT !.font = SomeOf([taken EXCEPT !.size = SomeOf(size)])]
               [] name = "font-weight" ->
                    LET weight == CASE value = "normal" -> "Normal"
                                    [] value = "bold" -> "Bold"
                                    [] OTHER -> font_weight(without_font)
                    IN  [st EXCEPT !.font = SomeOf([taken EXCEPT !.weight = SomeOf(weight)])]
               [] name = "font-style" ->
                    LET fstyle == CASE value = "normal" -> "Normal"
                                    [] value = "italic" -> "Italic"
                                    [] OTHER -> font_style(without_font)
                    IN  [st EXCEPT !.font = SomeOf([taken EXCEPT !.style = SomeOf(fstyle)])]
               [] name = "color" ->
                    LET parsed == CssColor_parse(value)
                    IN  IF IsSome(parsed)
                        THEN [st EXCEPT !.color =
                                SomeOf(CssColor_resolve(Unwrap(parsed), color_of(parent_style)))]
                        ELSE st
               [] OTHER -> st

RECURSIVE apply_declarations(_, _, _, _)
\* apply_declarations: the loop over the declarations; the style is a value
\* (DOMAIN st) before each turn, as the loop updates it in place
apply_declarations(declarations, st, parent_style, property) ==
    IF declarations = <<>> \/ DOMAIN st = {} THEN st
    ELSE apply_declarations(Tail(declarations),
                            apply_declaration(st, parent_style, property, Head(declarations)),
                            parent_style, property)

(* The nodes the style crate sees: a cell has its type, name, id          *)
(* attribute, parsed style attribute, parent, children and style.          *)

\* Node::new with the data of the model; every node starts with Style::empty()
StyleNode(type, name, id, inline) ==
    [type |-> type, name |-> name, id |-> id, inline |-> inline, parent |-> 0,
     children |-> <<>>, style |-> Style_empty]

\* NodeData::style: the stored style of an element or text, empty otherwise
NodeData_style(ns, n) ==
    IF ns[n].type \in {"Element", "Text"} THEN ns[n].style ELSE Style_empty

RECURSIVE NodeIterator(_, _, _)
\* NodeIterator::next run to the end: work is the stack of (node, i), out the
\* nodes returned so far
NodeIterator(ns, work, out) ==
    IF work = <<>> THEN out
    ELSE LET top == work[Len(work)]
             n == top[1]
             i == top[2]
         IN  IF i < Len(ns[n].children)
             THEN LET result == ns[n].children[i + 1]
                  IN  NodeIterator(ns,
                                   Append([work EXCEPT ![Len(work)] = <<n, i + 1>>],
                                          <<result, 0>>),
                                   Append(out, result))
             ELSE NodeIterator(ns, SubSeq(work, 1, Len(work) - 1), out)

\* Node::descendants
descendants(ns, n) == NodeIterator(ns, <<<<n, 0>>>>, <<>>)

RECURSIVE walk_up(_, _)
\* the ancestors of n, the parent first
walk_up(ns, n) ==
    IF ns[n].parent = 0 THEN <<>> ELSE <<ns[n].parent>> \o walk_up(ns, ns[n].parent)

\* the earlier siblings of n, the nearest first
walk_left(ns, n) ==
    IF ns[n].parent = 0 THEN <<>>
    ELSE LET sibs == ns[ns[n].parent].children
             at == CHOOSE i \in DOMAIN sibs : sibs[i] = n
         IN  [k \in 1..(at - 1) |-> sibs[at - k]]

\* the simple selectors of the model: type selectors and one id selector
IsTypeSelector(simple) == simple \in {"html", "body", "a"}
IsHashSelector(simple) == simple = "#x"

\* match_compound: every simple selector of the compound matches the node
match_compound(ns, n, compound) ==
    \A k \in DOMAIN compound :
        LET simple == compound[k]
        IN  CASE simple = "*" -> TRUE
              [] IsTypeSelector(simple) -> eq_ignore_ascii_case(ns[n].name, simple)
              [] IsHashSelector(simple) -> ns[n].id = SomeOf("x")
              [] OTHER -> TRUE

\* Iterator::take(k).find(..), 0 for None
FindIn(ns, q, k, compound) ==
    LET hits == {i \in DOMAIN q : i <= k /\ match_compound(ns, q[i], compound)}
    IN  IF hits = {} THEN 0 ELSE q[CHOOSE i \in hits : \A j \in hits : i <= j]

RECURSIVE MatchFrom(_, _, _, _)
\* the loop of match_complex from the i-th (compound, combinator) pair on
MatchFrom(ns, next, combinators, i) ==
    IF i > Len(combinators) THEN TRUE
    ELSE LET compound == combinators[i][1]
             combinator == combinators[i][2]
             up == walk_up(ns, next)
             left == walk_left(ns, next)
             result == CASE combinator = "Descendant" -> FindIn(ns, up, Len(up), compound)
                         [] combinator = "Child" -> FindIn(ns, up, 1, compound)
                         [] combinator = "SubsequentSibling" ->
                                FindIn(ns, left, Len(left), compound)
                         [] combinator = "NextSibling" -> FindIn(ns, left, 1, compound)
         IN  IF result = 0 THEN FALSE ELSE MatchFrom(ns, result, combinators, i + 1)

\* match_complex: sel is (combinators, compound)
match_complex(ns, n, sel) ==
    IF ~match_compound(ns, n, sel[2]) THEN FALSE
    ELSE MatchFrom(ns, n, sel[1], 1)

\* apply: the matching rules in file order, each once per matching selector
RECURSIVE apply(_, _, _, _, _, _)
apply(ns, n, rules, st, parent_style, property) ==
    IF rules = <<>> THEN st
    ELSE LET selectors == Head(rules)[1]
             declarations == Head(rules)[2]
             RECURSIVE Selectors(_, _)
             Selectors(k, acc) ==
                 IF k > Len(selectors) THEN acc
                 ELSE IF ~match_complex(ns, n, selectors[k]) THEN Selectors(k + 1, acc)
                 ELSE Selectors(k + 1,
                                apply_declarations(declarations, acc, parent_style, property))
         IN  apply(ns, n, Tail(rules), Selectors(1, st), parent_style, property)

\* the Element arm of resolve_styles: the style set on node n
ElementStyle(ns, n, rules) ==
    LET parent_style == NodeData_style(ns, ns[n].parent)
        inline == ns[n].inline
        s0 == new_inherited(parent_style)
        s1 == apply(ns, n, rules, s0, parent_style, SomeOf("font-size"))
        s2 == apply(ns, n, rules, s1, parent_style, SomeOf("color"))
        s3 == IF IsSome(inline)
              THEN apply_declarations(Unwrap(inline), s2, parent_style, SomeOf("font-size"))
              ELSE s2
        s4 == IF IsSome(inline)
              THEN apply_declarations(Unwrap(inline), s3, parent_style, SomeOf("color"))
              ELSE s3
        s5 == apply(ns, n, rules, s4, parent_style, Nothing)
    IN  IF IsSome(inline)
        THEN apply_declarations(Unwrap(inline), s5, parent_style, Nothing)
        ELSE s5

(* Inputs of the style resolver *)

MaxStyleNodes == 2
MaxRules == 2

\* a type selector, an id selector, the universal selector
SelA == <<<<>>, <<"a">>>>
SelX == <<<<>>, <<"#x">>>>
SelAny == <<<<>>, <<"*">>>>

\* a { color: red }   #x { color: blue; font-weight: bold; font-style: italic }
\* a { font-size: 20px }
\* a { font-size: big; font-weight: heavy; font-style: slanted }
\* *, a { float: left; color: nocolor }
RulePool ==
    { <<<<SelA>>, <<<<"color", "red">>>>>>,
      <<<<SelX>>, <<<<"color", "blue">>, <<"font-weight", "bold">>,
                    <<"font-style", "italic">>>>>>,
      <<<<SelA>>, <<<<"font-size", "20px">>>>>>,
      <<<<SelA>>, <<<<"font-size", "big">>, <<"font-weight", "heavy">>,
                    <<"font-style", "slanted">>>>>>,
      <<<<SelAny, SelA>>, <<<<"float", "left">>, <<"color", "nocolor">>>>>> }

RuleLists == UNION { [1..k -> RulePool] : k \in 0..MaxRules }

\* <a id=x>, <a style="color: green; font-size: 2em">, a text, a comment
StyleNodeKinds ==
    { StyleNode("Element", "a", SomeOf("x"), Nothing),
      StyleNode("Element", "a", Nothing,
                SomeOf(<<<<"color", "green">>, <<"font-size", "2em">>>>)),
      StyleNode("Text", "#text", Nothing, Nothing),
      StyleNode("Comment", "#comment", Nothing, Nothing) }

\* the document of cells kinds[1..n], cell i appended to cell up[i]
BuildTree(kinds, up) ==
    LET n == Len(kinds)
        ChildrenOf(j) ==
            LET RECURSIVE Collect(_, _)
                Collect(i, acc) ==
                    IF i > n THEN acc
                    ELSE Collect(i + 1, IF up[i] = j THEN Append(acc, i + 1) ELSE acc)
            IN  Collect(1, <<>>)
    IN  [j \in 1..(n + 1) |->
            IF j = 1
            THEN [StyleNode("Document", "#document", Nothing, Nothing)
                    EXCEPT !.children = ChildrenOf(1)]
            ELSE [kinds[j - 1] EXCEPT !.parent = up[j - 1], !.children = ChildrenOf(j)]]

\* the documents parse_html can build from the kinds: children only under
\* the document and under elements
TreesOf(kindSet, max) ==
    UNION { UNION { { BuildTree(kinds, up) :
                        up \in { u \in [1..n -> 1..max] :
                                   \A i \in 1..n :
                                       /\ u[i] <= i
                                       /\ u[i] > 1 => kinds[u[i] - 1].type = "Element" } } :
                    kinds \in [1..n -> kindSet] } :
            n \in 0..max }

StyleTrees == TreesOf(StyleNodeKinds, MaxStyleNodes)

(* resolve_styles as a state machine: one step per node of descendants() *)

IdleResolver ==
    /\ rule_list = <<>>
    /\ cursor = 0
    /\ visited = <<>>
    /\ styling = "idle"

IdleStyle == dom_tree = <<>> /\ IdleResolver

InitStyle ==
    /\ dom_tree \in StyleTrees
    /\ rule_list \in RuleLists
    /\ cursor = 0
    /\ visited = <<>>
    /\ styling = "running"

\* the node the iterator returns next, 0 at the end
NextNode ==
    LET order == descendants(dom_tree, 1)
    IN  IF cursor < Len(order) THEN order[cursor + 1] ELSE 0

\* NodeData::set_style
set_style(ns, n, st) == [ns EXCEPT ![n].style = st]

ResolveComment ==
    /\ styling = "running"
    /\ NextNode # 0
    /\ dom_tree[NextNode].type = "Comment"
    /\ cursor' = cursor + 1
    /\ visited' = Append(visited, NextNode)
    /\ UNCHANGED <<dom_tree, rule_list, styling>>
    /\ UNCHANGED <<docVars, browserVars, treeVars, matchVars, layoutVars, cssVars, lexerVars>>

ResolveText ==
    /\ styling = "running"
    /\ NextNode # 0
    /\ dom_tree[NextNode].type = "Text"
    /\ dom_tree' = set_style(dom_tree, NextNode,
                             new_inherited(NodeData_style(dom_tree,
                                                          dom_tree[NextNode].parent)))
    /\ cursor' = cursor + 1
    /\ visited' = Append(visited, NextNode)
    /\ UNCHANGED <<rule_list, styling>>
    /\ UNCHANGED <<docVars, browserVars, treeVars, matchVars, layoutVars, cssVars, lexerVars>>

ResolveElement ==
    /\ styling = "running"
    /\ NextNode # 0
    /\ dom_tree[NextNode].type = "Element"
    /\ dom_tree' = set_style(dom_tree, NextNode,
                             ElementStyle(dom_tree, NextNode, rule_list))
    /\ cursor' = cursor + 1
    /\ visited' = Append(visited, NextNode)
    /\ UNCHANGED <<rule_list, styling>>
    /\ UNCHANGED <<docVars, browserVars, treeVars, matchVars, layoutVars, cssVars, lexerVars>>

ResolveReturn ==
    /\ styling = "running"
    /\ NextNode = 0
    /\ styling' = "done"
    /\ UNCHANGED <<dom_tree, rule_list, cursor, visited>>
    /\ UNCHANGED <<docVars, browserVars, treeVars, matchVars, layoutVars, cssVars, lexerVars>>

NextStyle == ResolveComment \/ ResolveText \/ ResolveElement \/ ResolveReturn

(* match_complex on the selectors of the unit test and longer ones *)

MaxMatchNodes == 3

MatchNodeKinds ==
    { StyleNode("Element", nm, Nothing, Nothing) : nm \in {"html", "body", "a"} }

MatchTrees == TreesOf(MatchNodeKinds, MaxMatchNodes)

\* body a, body > a, html > body a, html body > a, body ~ a, body + a
ComplexSelectors ==
    { <<<<<<<<"body">>, "Descendant">>>>, <<"a">>>>,
      <<<<<<<<"body">>, "Child">>>>, <<"a">>>>,
      <<<<<<<<"html">>, "Child">>, <<<<"body">>, "Descendant">>>>, <<"a">>>>,
      <<<<<<<<"html">>, "Descendant">>, <<<<"body">>, "Child">>>>, <<"a">>>>,
      <<<<<<<<"body">>, "SubsequentSibling">>>>, <<"a">>>>,
      <<<<<<<<"body">>, "NextSibling">>>>, <<"a">>>> }

IdleMatch ==
    /\ complex = <<>>
    /\ candidate = 0
    /\ matched = "idle"

InitMatch ==
    /\ dom_tree \in MatchTrees
    /\ complex \in ComplexSelectors
    /\ candidate \in 2..Len(dom_tree)
    /\ matched = "pending"

MatchComplex ==
    /\ matched = "pending"
    /\ matched' = IF match_complex(dom_tree, candidate, complex) THEN "true" ELSE "false"
    /\ UNCHANGED <<complex, candidate>>
    /\ UNCHANGED <<docVars, browserVars, treeVars, styleVars, layoutVars, cssVars, lexerVars>>

NextMatch == MatchComplex

----------------------------------------------------------------------------
(* Layout (layout/src/lib.rs).  Of Style the layout reads display, margin, *)
(* padding, border widths, width and height; a length is [unit, x] as in   *)
(* CssLength_parse; a Rect is [left, top, right, bottom]; f32 values are   *)
(* integers.  Node and Layout handles are indices of lay_dom and layouts,  *)
(* 0 for None and for an empty Weak.                                       *)

Sides == {"top", "right", "bottom", "left"}

\* CssLength::Zero, CssLength::Px(x), CssLength::Percent(x)
Zero == [unit |-> "Zero", x |-> 0]
Px(x) == [unit |-> "Px", x |-> x]
Percent(x) == [unit |-> "Percent", x |-> x]

\* CssWidth::Auto, CssHeight::Auto; CssWidth::Length(x) is the length x
Auto == [unit |-> "Auto", x |-> 0]

\* CssLength::resolve_no_percent
resolve_no_percent(self, em_base) ==
    IF self.unit = "Percent" THEN Nothing
    ELSE SomeOf(CssLength_resolve(self, 0, em_base))

\* CssQuad::one, CssQuad::default
CssQuad_one(all) == [side \in Sides |-> all]
CssQuad_default == CssQuad_one(Nothing)

\* CssQuad::map_or
CssQuad_map_or(self, initial, F(_)) ==
    [side \in Sides |->
        IF IsSome(self[side]) THEN F(Unwrap(self[side])) ELSE F(Unwrap(initial[side]))]

\* the fields of INITIAL_STYLE and of Style::empty() that the layout reads
\* (border_width is Style::border_width() of the border quad)
LayoutStyle_initial ==
    [display |-> SomeOf("inline"), margin |-> CssQuad_one(SomeOf(Zero)),
     padding |-> CssQuad_one(SomeOf(Zero)), border_width |-> CssQuad_one(SomeOf(Zero)),
     width |-> SomeOf(Auto), height |-> Nothing]
LayoutStyle_empty ==
    [display |-> Nothing, margin |-> CssQuad_default, padding |-> CssQuad_default,
     border_width |-> CssQuad_default, width |-> Nothing, height |-> Nothing]

\* Style::display
Style_display(st) ==
    LET value == IF IsSome(st.display) THEN Unwrap(st.display)
                 ELSE Unwrap(LayoutStyle_initial.display)
    IN  CASE value = "none" -> "None"
          [] value = "inline" -> "Inline"
          [] value = "block" -> "Block"
          [] OTHER -> "Inline"

\* Style::box_width
box_width(st, percent_base) ==
    LET width == IF IsSome(st.width) THEN Unwrap(st.width)
                 ELSE Unwrap(LayoutStyle_initial.width)
        Side(quad, side) ==
            IF IsSome(quad[side]) THEN Unwrap(quad[side]) ELSE Zero
        Border(side) ==
            LET got == resolve_no_percent(Side(st.border_width, side), FONT_SIZE)
            IN  IF IsSome(got) THEN Unwrap(got) ELSE 0
    IN  IF width.unit = "Auto" THEN percent_base
        ELSE CssLength_resolve(width, percent_base, FONT_SIZE)
             + CssLength_resolve(Side(st.margin, "left"), percent_base, FONT_SIZE)
             + CssLength_resolve(Side(st.padding, "left"), percent_base, FONT_SIZE)
             + Border("left") + Border("right")
             + CssLength_resolve(Side(st.padding, "right"), percent_base, FONT_SIZE)
             + CssLength_resolve(Side(st.margin, "right"), percent_base, FONT_SIZE)

\* Style::box_height: the resolved height, None for auto
box_height(st) ==
    IF IsSome(st.height) /\ Unwrap(st.height).unit # "Auto"
    THEN SomeOf(CssLength_resolve(Unwrap(st.height), 0, FONT_SIZE))
    ELSE Nothing

\* a node of lay_dom; words are the advances of the words of a text
LayoutNode(type, st, words) ==
    [type |-> type, style |-> st, words |-> words, parent |-> 0, children |-> <<>>]

\* NodeData::style for the nodes the layout reads
LayoutNode_style(n) ==
    IF lay_dom[n].type \in {"Element", "Text"} THEN lay_dom[n].style ELSE LayoutStyle_empty

\* Layout::is_skippable
is_skippable(n) == Style_display(LayoutNode_style(n)) = "None"

RECURSIVE is_block_level(_)
\* Layout::is_block_level
is_block_level(n) ==
    IF lay_dom[n].type \in {"Text", "Comment"} THEN FALSE
    ELSE LET blocky_display ==
                 CASE Style_display(LayoutNode_style(n)) = "None" -> FALSE
                   [] Style_display(LayoutNode_style(n)) = "Inline" -> FALSE
                   [] Style_display(LayoutNode_style(n)) = "Block" -> TRUE
                   [] Style_display(LayoutNode_style(n)) = "InlineBlock" -> TRUE
                   [] Style_display(LayoutNode_style(n)) = "ListItem" -> TRUE
         IN  blocky_display
             \/ \E k \in DOMAIN lay_dom[n].children : is_block_level(lay_dom[n].children[k])

\* Rect::NAN: no operation of the model is defined on it
Rect_NAN == "NaN"

\* Rect::from_min_size, width, set_top, set_left, set_right, set_bottom,
\* set_width, set_height
Rect_from_min_size(x, y, w, h) == [left |-> x, top |-> y, right |-> x + w, bottom |-> y + h]
Rect_width(r) == r.right - r.left
set_top(r, y) == [r EXCEPT !.top = y]
set_left(r, x) == [r EXCEPT !.left = x]
set_right(r, x) == [r EXCEPT !.right = x]
set_bottom(r, y) == [r EXCEPT !.bottom = y]
set_width(r, w) == [r EXCEPT !.right = r.left + w]
set_height(r, h) == [r EXCEPT !.bottom = r.top + h]

\* mutant: the anonymous box loses the first of its inlines
anonymous_without_first(nodeSeq) ==
    [node |-> 0, inlines |-> Tail(nodeSeq), parent |-> 0, previous |-> 0, children |-> <<>>,
     rect |-> Rect_NAN, margin |-> CssQuad_one(SomeOf(0)),
     border |-> CssQuad_one(SomeOf(0)), padding |-> CssQuad_one(SomeOf(0))]

\* Layout::anonymous
anonymous(nodeSeq) ==
    [node |-> 0, inlines |-> nodeSeq, parent |-> 0, previous |-> 0, children |-> <<>>,
     rect |-> Rect_NAN, margin |-> CssQuad_one(SomeOf(0)),
     border |-> CssQuad_one(SomeOf(0)), padding |-> CssQuad_one(SomeOf(0))]

\* Layout::with_node
with_node(n, available) ==
    LET st == LayoutNode_style(n)
        Resolve(x) == SomeOf(CssLength_resolve(x, available, FONT_SIZE))
        NoPercent(x) == resolve_no_percent(x, FONT_SIZE)
    IN  [node |-> n, inlines |-> <<>>, parent |-> 0, previous |-> 0, children |-> <<>>,
         rect |-> Rect_NAN,
         margin |-> CssQuad_map_or(st.margin, LayoutStyle_initial.margin, Resolve),
         border |-> CssQuad_map_or(st.border_width, LayoutStyle_initial.border_width,
                                   NoPercent),
         padding |-> CssQuad_map_or(st.padding, LayoutStyle_initial.padding, Resolve)]

\* what FontInfo gives Layout::text for every font of the model, divided by
\* the viewport scale: ascent, height, and the resolved line height
FontMetrics == [ascent |-> 1, height |-> 1, line_height |-> 1, half_leading |-> 0]

\* the viewport handed to Layout::layout
LayoutViewport == [rect |-> Rect_from_min_size(0, 0, 6, 2), scale |-> 1]

\* an activation of Layout::f on layout self: its locals and where it is
\* ("enter", "children", "inlines", "words", "finish"); k is the position of
\* the loop over boxes
Activation(self) ==
    [self |-> self, at |-> "enter", i |-> 0,
     margin_rect |-> Rect_NAN, padding_rect |-> Rect_NAN, border_rect |-> Rect_NAN,
     content_rect |-> Rect_NAN, boxes |-> <<>>, k |-> 1]

Top == calls[Len(calls)]

RECURSIVE Candidates(_, _, _, _, _)
\* the loop of f over candidates from position k on: made is the boxes made
\* so far (their cells), pending the inlines collected since the last box
Candidates(self, candidates, k, made, pending) ==
    IF k > Len(candidates) THEN [made |-> made, inlines |-> pending]
    ELSE LET child == candidates[k]
         IN  IF is_block_level(child)
             THEN Candidates(self, candidates, k + 1,
                             (IF pending # <<>> THEN Append(made, anonymous(pending))
                              ELSE made)
                             \o <<with_node(child, Rect_width(layouts[self].rect))>>,
                             <<>>)
             ELSE IF ~is_skippable(child)
             THEN Candidates(self, candidates, k + 1, made, Append(pending, child))
             ELSE Candidates(self, candidates, k + 1, made, pending)

\* the margin, border, padding and content rectangles at the entry of f
EntryRects(self) ==
    LET b == layouts[self]
        rect0 == b.rect
        rect1 == set_right(set_left(set_top(rect0, rect0.top + Unwrap(b.margin.top)),
                                    rect0.left + Unwrap(b.margin.left)),
                           rect0.right - Unwrap(b.margin.right))
        rect2 == set_right(set_left(set_top(rect1, rect1.top + Unwrap(b.border.top)),
                                    rect1.left + Unwrap(b.border.left)),
                           rect1.right - Unwrap(b.border.right))
        rect3 == set_right(set_left(set_top(rect2, rect2.top + Unwrap(b.padding.top)),
                                    rect2.left + Unwrap(b.padding.left)),
                           rect2.right - Unwrap(b.padding.right))
    IN  IF b.node # 0
        THEN [margin_rect |-> rect0, border_rect |-> rect1, padding_rect |-> rect2,
              content_rect |-> rect3]
        ELSE [margin_rect |-> rect0, border_rect |-> rect0, padding_rect |-> rect0,
              content_rect |-> rect0]

\* a top_unwrap, left_unwrap or right_unwrap at the entry of f meets a None
EntryUnwrapFails(self) ==
    /\ layouts[self].node # 0
    /\ \E quad \in {"margin", "border", "padding"}, side \in {"top", "left", "right"} :
          ~IsSome(layouts[self][quad][side])

\* Layout::layout called by OwnedDocument::layout on the box of the document
LayoutCall ==
    /\ laying = "ready"
    /\ layouts' = << [with_node(1, Rect_width(LayoutViewport.rect)) EXCEPT
                        !.rect = Rect_from_min_size(LayoutViewport.rect.left,
                                                    LayoutViewport.rect.top,
                                                    Rect_width(LayoutViewport.rect), 0)] >>
    /\ calls' = <<Activation(1)>>
    /\ laying' = "running"
    /\ UNCHANGED <<lay_dom, dc_display_list, ic, flushes>>
    /\ UNCHANGED <<docVars, browserVars, treeVars, styleVars, matchVars, cssVars, lexerVars>>

\* f up to its assertion: the rectangles and the generation of the boxes
GenerateBoxes ==
    /\ laying = "running"
    /\ Top.at = "enter"
    /\ IF EntryUnwrapFails(Top.self)
       THEN /\ laying' = "panicked"
            /\ UNCHANGED <<layouts, calls>>
       ELSE LET self == Top.self
                rects == EntryRects(self)
                candidates == IF layouts[self].node # 0
                              THEN lay_dom[layouts[self].node].children ELSE <<>>
                loop == Candidates(self, candidates, 1, <<>>, <<>>)
                made == IF loop.inlines # <<>> /\ loop.made # <<>>
                        THEN Append(loop.made, anonymous(loop.inlines))
                        ELSE loop.made
                own == IF loop.inlines # <<>> /\ loop.made = <<>>
                       THEN layouts[self].inlines \o loop.inlines
                       ELSE layouts[self].inlines
                ids == [j \in 1..Len(made) |-> Len(layouts) + j]
                holds == \/ made # <<>> /\ own = <<>>
                         \/ own # <<>> /\ made = <<>>
                         \/ made = <<>> /\ own = <<>>
            IN  /\ layouts' = [layouts EXCEPT ![self].inlines = own] \o made
                /\ calls' = [calls EXCEPT ![Len(calls)] =
                                [@ EXCEPT !.i = Len(dc_display_list),
                                          !.margin_rect = rects.margin_rect,
                                          !.padding_rect = rects.padding_rect,
                                          !.border_rect = rects.border_rect,
                                          !.content_rect = rects.content_rect,
                                          !.boxes = ids,
                                          !.at = IF made # <<>> THEN "children"
                                                 ELSE IF own # <<>> THEN "inlines"
                                                 ELSE "finish"]]
                /\ laying' = IF holds THEN "running" ELSE "panicked"
    /\ UNCHANGED <<lay_dom, dc_display_list, ic, flushes>>
    /\ UNCHANGED <<docVars, browserVars, treeVars, styleVars, matchVars, cssVars, lexerVars>>

\* Layout::append
Layout_append(ls, self, child) ==
    LET previous == IF ls[self].children # <<>>
                    THEN ls[self].children[Len(ls[self].children)] ELSE 0
    IN  [ls EXCEPT ![child].parent = self, ![child].previous = previous,
                   ![self].children = Append(@, child)]

\* a left_unwrap or right_unwrap of the loop over boxes meets a None
PlaceUnwrapFails(child) ==
    /\ layouts[child].node # 0
    /\ \E quad \in {"margin", "border", "padding"}, side \in {"left", "right"} :
          ~IsSome(layouts[child][quad][side])

\* one turn of the loop over boxes, up to the call of f on the box
PlaceChild ==
    /\ laying = "running"
    /\ Top.at = "children"
    /\ Top.k <= Len(Top.boxes)
    /\ LET child == Top.boxes[Top.k]
           appended == Layout_append(layouts, Top.self, child)
           previous == appended[child].previous
           rect0 == Top.content_rect
           rect1 == IF previous # 0 THEN set_top(rect0, appended[previous].rect.bottom)
                    ELSE rect0
           node == appended[child].node
           rect2 == IF node # 0
                    THEN set_width(rect1, box_width(LayoutNode_style(node), Rect_width(rect1)))
                    ELSE rect1
       IN  IF PlaceUnwrapFails(child)
           THEN /\ layouts' = [appended EXCEPT ![child].rect = rect1]
                /\ laying' = "panicked"
                /\ UNCHANGED calls
           ELSE /\ layouts' = [appended EXCEPT ![child].rect = set_height(rect2, 0)]
                /\ calls' = Append(calls, Activation(child))
                /\ UNCHANGED laying
    /\ UNCHANGED <<lay_dom, dc_display_list, ic, flushes>>
    /\ UNCHANGED <<docVars, browserVars, treeVars, styleVars, matchVars, cssVars, lexerVars>>

RECURSIVE recurse(_)
\* Layout::recurse: the words Layout::text is run on, each with its text node
\* and its advance, in the order of the calls
recurse(n) ==
    CASE lay_dom[n].type = "Element" ->
            LET RECURSIVE Children(_)
                Children(k) ==
                    IF k > Len(lay_dom[n].children) THEN <<>>
                    ELSE recurse(lay_dom[n].children[k]) \o Children(k + 1)
            IN  Children(1)
      [] lay_dom[n].type = "Text" ->
            [k \in DOMAIN lay_dom[n].words |-> [node |-> n, advance |-> lay_dom[n].words[k]]]
      [] lay_dom[n].type = "Comment" -> <<>>

RECURSIVE RecurseAll(_)
RecurseAll(nodeSeq) ==
    IF nodeSeq = <<>> THEN <<>> ELSE recurse(Head(nodeSeq)) \o RecurseAll(Tail(nodeSeq))

Max(x, y) == IF x >= y THEN x ELSE y

\* Layout::flush with text-align left: the InlineContext after the call and
\* the paints pushed on the display list
flush(icv) ==
    [ic |-> [icv EXCEPT !.line_display_list = <<>>,
                        !.cursor = [x |-> icv.content_rect.left,
                                    y |-> icv.cursor.y + icv.max_height],
                        !.max_ascent = 0,
                        !.max_height = 0],
     pushed |-> [k \in DOMAIN icv.line_display_list |->
                   LET text == icv.line_display_list[k]
                       dy == icv.max_ascent - FontMetrics.ascent
                   IN  [text EXCEPT !.rect.top = @ + dy, !.rect.bottom = @ + dy]]]

\* what a call of flush saw: the cursor, the right edge of the content
\* rectangle and the paints of the line
FlushRecord(icv) ==
    [x |-> icv.cursor.x, right |-> icv.content_rect.right, line |-> icv.line_display_list]

\* the inline branch of f up to the loop over the inlines
InlineBegin ==
    /\ laying = "running"
    /\ Top.at = "inlines"
    /\ ic' = [content_rect |-> Top.content_rect,
              cursor |-> [x |-> Top.content_rect.left, y |-> Top.content_rect.top],
              max_ascent |-> 0, max_height |-> 0, line_display_list |-> <<>>,
              pending |-> RecurseAll(layouts[Top.self].inlines)]
    /\ calls' = [calls EXCEPT ![Len(calls)].at = "words"]
    /\ UNCHANGED <<lay_dom, layouts, dc_display_list, flushes, laying>>
    /\ UNCHANGED <<docVars, browserVars, treeVars, styleVars, matchVars, cssVars, lexerVars>>

\* one turn of the loop of Layout::text over the words
InlineWord ==
    /\ laying = "running"
    /\ Top.at = "words"
    /\ ic.pending # <<>>
    /\ LET word == Head(ic.pending)
           rect == layouts[Top.self].rect
           breaks == ic.cursor.x + word.advance > rect.right
           flushed == flush(ic)
           ic1 == IF breaks THEN flushed.ic ELSE ic
           paint == [kind |-> "Text", node |-> word.node,
                     rect |-> Rect_from_min_size(ic1.cursor.x, ic1.cursor.y, word.advance,
                                                 FontMetrics.height)]
       IN  /\ ic' = [ic1 EXCEPT
                        !.max_ascent = Max(@, FontMetrics.ascent + FontMetrics.half_leading),
                        !.max_height = Max(@, FontMetrics.line_height),
                        !.line_display_list = Append(@, paint),
                        !.cursor.x = @ + word.advance,
                        !.pending = Tail(@)]
           /\ dc_display_list' = IF breaks THEN dc_display_list \o flushed.pushed
                                 ELSE dc_display_list
           /\ flushes' = IF breaks THEN Append(flushes, FlushRecord(ic)) ELSE flushes
    /\ UNCHANGED <<lay_dom, layouts, calls, laying>>
    /\ UNCHANGED <<docVars, browserVars, treeVars, styleVars, matchVars, cssVars, lexerVars>>

\* the inline branch of f after the loop: the last flush and the bottom
InlineEnd ==
    /\ laying = "running"
    /\ Top.at = "words"
    /\ ic.pending = <<>>
    /\ ic' = flush(ic).ic
    /\ dc_display_list' = dc_display_list \o flush(ic).pushed
    /\ flushes' = Append(flushes, FlushRecord(ic))
    /\ calls' = [calls EXCEPT ![Len(calls)] =
                    [@ EXCEPT !.content_rect = set_bottom(@, flush(ic).ic.cursor.y),
                              !.at = "finish"]]
    /\ UNCHANGED <<lay_dom, layouts, laying>>
    /\ UNCHANGED <<docVars, browserVars, treeVars, styleVars, matchVars, cssVars, lexerVars>>

\* the five Paint::Fill of a box with a node, in the order they have in the
\* display list after the inserts at i
Fills(n, padding_rect, border_rect) ==
    << [kind |-> "Fill", node |-> n, part |-> "border-left",
        rect |-> [border_rect EXCEPT !.right = padding_rect.left]],
       [kind |-> "Fill", node |-> n, part |-> "border-bottom",
        rect |-> [border_rect EXCEPT !.top = padding_rect.bottom]],
       [kind |-> "Fill", node |-> n, part |-> "border-right",
        rect |-> [border_rect EXCEPT !.left = padding_rect.right]],
       [kind |-> "Fill", node |-> n, part |-> "border-top",
        rect |-> [border_rect EXCEPT !.bottom = padding_rect.top]],
       [kind |-> "Fill", node |-> n, part |-> "background", rect |-> padding_rect] >>

\* Vec::insert of several elements at i
InsertAt(list, i, items) == SubSeq(list, 1, i) \o items \o SubSeq(list, i + 1, Len(list))

\* the end of f: the explicit height, the bottom of the rectangles and the
\* paints of the box; then the caller goes on, the loop over boxes of the
\* enclosing f or Layout::layout
FinishBox ==
    /\ laying = "running"
    /\ Top.at = "finish"
    /\ LET self == Top.self
           b == layouts[self]
           fails == \E quad \in {"margin", "border", "padding"} : ~IsSome(b[quad].bottom)
           height == IF b.node # 0 THEN box_height(LayoutNode_style(b.node)) ELSE Nothing
           content_rect == IF IsSome(height)
                           THEN set_bottom(Top.content_rect, Top.content_rect.top + Unwrap(height))
                           ELSE Top.content_rect
           padding_rect == set_bottom(Top.padding_rect,
                                      content_rect.bottom + Unwrap(b.padding.bottom))
           border_rect == set_bottom(Top.border_rect,
                                     padding_rect.bottom + Unwrap(b.border.bottom))
           margin_rect == set_bottom(Top.margin_rect,
                                     border_rect.bottom + Unwrap(b.margin.bottom))
           rect == set_bottom(b.rect, margin_rect.bottom)
           callers == SubSeq(calls, 1, Len(calls) - 1)
       IN  IF fails
           THEN /\ laying' = "panicked"
                /\ UNCHANGED <<layouts, calls, dc_display_list>>
           ELSE /\ layouts' = [layouts EXCEPT ![self].rect = rect]
                /\ dc_display_list' =
                      IF b.node # 0
                      THEN InsertAt(dc_display_list, Top.i,
                                    Fills(b.node, padding_rect, border_rect))
                      ELSE dc_display_list
                /\ IF callers = <<>>
                   THEN /\ calls' = <<>>
                        /\ laying' = "returned"
                   ELSE /\ calls' = [callers EXCEPT ![Len(callers)] =
                                        [@ EXCEPT !.content_rect = set_bottom(@, rect.bottom),
                                                  !.k = @ + 1,
                                                  !.at = IF callers[Len(callers)].k + 1
                                                              > Len(callers[Len(callers)].boxes)
                                                         THEN "finish" ELSE "children"]]
                        /\ laying' = laying
    /\ UNCHANGED <<lay_dom, ic, flushes>>
    /\ UNCHANGED <<docVars, browserVars, treeVars, styleVars, matchVars, cssVars, lexerVars>>

(* Inputs of the layout *)

MaxBoxNodes == 3
MaxLayoutNodes == 3

\* an element with display: value and nothing else set
Displayed(value) ==
    LayoutNode("Element", [LayoutStyle_initial EXCEPT !.display = SomeOf(value)], <<>>)

\* <div>, <span>, an element with display: none, <li>, a text of one word, a
\* comment
BoxNodeKinds ==
    { Displayed("block"), Displayed("inline"), Displayed("none"), Displayed("list-item"),
      LayoutNode("Text", LayoutStyle_initial, <<1>>),
      LayoutNode("Comment", LayoutStyle_empty, <<>>) }

\* a block with the given margin and padding (on all sides), border width
\* (on all sides), width and height
Block(margin, padding, border_width, width, height) ==
    LayoutNode("Element",
               [display |-> SomeOf("block"), margin |-> CssQuad_one(SomeOf(margin)),
                padding |-> CssQuad_one(SomeOf(padding)),
                border_width |-> CssQuad_one(SomeOf(border_width)),
                width |-> SomeOf(width), height |-> height],
               <<>>)

\* <div>, <div style="margin: 1px; padding: 1px">, <div style="height: 0">,
\* <div style="width: 2px; border-width: 50%">, a text of three words of
\* advance 3, a text of one word of advance 7
GeometryNodeKinds ==
    { Block(Zero, Zero, Zero, Auto, Nothing),
      Block(Px(1), Px(1), Zero, Auto, Nothing),
      Block(Zero, Zero, Zero, Auto, SomeOf(Zero)),
      Block(Zero, Zero, Percent(50), Px(2), Nothing),
      LayoutNode("Text", LayoutStyle_initial, <<3, 3, 3>>),
      LayoutNode("Text", LayoutStyle_initial, <<7>>) }

\* the document of cells kinds[1..n], cell i appended to cell up[i]
BuildLayoutTree(kinds, up) ==
    LET n == Len(kinds)
        ChildrenOf(j) ==
            LET RECURSIVE Collect(_, _)
                Collect(i, acc) ==
                    IF i > n THEN acc
                    ELSE Collect(i + 1, IF up[i] = j THEN Append(acc, i + 1) ELSE acc)
            IN  Collect(1, <<>>)
    IN  [j \in 1..(n + 1) |->
            IF j = 1
            THEN [LayoutNode("Document", LayoutStyle_empty, <<>>)
                    EXCEPT !.children = ChildrenOf(1)]
            ELSE [kinds[j - 1] EXCEPT !.parent = up[j - 1], !.children = ChildrenOf(j)]]

\* the styled documents of at most max nodes: children only under the
\* document and under elements
LayoutTreesOf(kindSet, max) ==
    UNION { UNION { { BuildLayoutTree(kinds, up) :
                        up \in { u \in [1..n -> 1..max] :
                                   \A i \in 1..n :
                                       /\ u[i] <= i
                                       /\ u[i] > 1 => kinds[u[i] - 1].type = "Element" } } :
                    kinds \in [1..n -> kindSet] } :
            n \in 0..max }

\* no InlineContext
NoInlineContext == [pending |-> <<>>]

IdleLayout ==
    /\ lay_dom = <<>>
    /\ layouts = <<>>
    /\ calls = <<>>
    /\ dc_display_list = <<>>
    /\ ic = NoInlineContext
    /\ flushes = <<>>
    /\ laying = "off"

\* OwnedDocument::layout is about to call Layout::layout on a styled dom
InitLayoutOn(trees) ==
    /\ lay_dom \in trees
    /\ layouts = <<>>
    /\ calls = <<>>
    /\ dc_display_list = <<>>
    /\ ic = NoInlineContext
    /\ flushes = <<>>
    /\ laying = "ready"

NextLayout ==
    \/ LayoutCall
    \/ GenerateBoxes
    \/ PlaceChild
    \/ InlineBegin
    \/ InlineWord
    \/ InlineEnd
    \/ FinishBox

----------------------------------------------------------------------------
(* css_file (css-parser/src/lib.rs) as a state machine: one step per turn  *)
(* of its loop.  Over the alphabet of css_rule above there is no space and *)
(* no comment, so css_big_token(css_rule) is css_rule.                     *)

\* the turn of the loop whose css_rule succeeds
CssFileRule ==
    /\ css_pc = "loop"
    /\ css_input # <<>>
    /\ css_rule(css_input).ok
    /\ css_result' = Append(css_result, css_rule(css_input).rule)
    /\ css_input' = css_rule(css_input).rest
    /\ UNCHANGED <<css_text, css_pc>>
    /\ UNCHANGED <<docVars, browserVars, treeVars, styleVars, matchVars, layoutVars, lexerVars>>

\* the turn of the loop whose rule_with_bad_selector succeeds
CssFileSkip ==
    /\ css_pc = "loop"
    /\ css_input # <<>>
    /\ ~css_rule(css_input).ok
    /\ rule_with_bad_selector(css_input).ok
    /\ css_input' = rule_with_bad_selector(css_input).rest
    /\ UNCHANGED <<css_text, css_result, css_pc>>
    /\ UNCHANGED <<docVars, browserVars, treeVars, styleVars, matchVars, layoutVars, lexerVars>>

\* the turn of the loop in which both fail: input = &input[input.len()..]
CssFileGiveUp ==
    /\ css_pc = "loop"
    /\ css_input # <<>>
    /\ ~css_rule(css_input).ok
    /\ ~rule_with_bad_selector(css_input).ok
    /\ css_input' = SubSeq(css_input, Len(css_input) + 1, Len(css_input))
    /\ UNCHANGED <<css_text, css_result, css_pc>>
    /\ UNCHANGED <<docVars, browserVars, treeVars, styleVars, matchVars, layoutVars, lexerVars>>

\* input.is_empty(): Ok((input, result))
CssFileReturn ==
    /\ css_pc = "loop"
    /\ css_input = <<>>
    /\ css_pc' = "returned"
    /\ UNCHANGED <<css_text, css_input, css_result>>
    /\ UNCHANGED <<docVars, browserVars, treeVars, styleVars, matchVars, layoutVars, lexerVars>>

MaxCssLen == 6

\* `a`, `1`, `{`, `}`
CssAlphabet == {97, 49, 123, 125}
CssTexts == UNION { [1..n -> CssAlphabet] : n \in 0..MaxCssLen }

IdleCss ==
    /\ css_text = <<>>
    /\ css_input = <<>>
    /\ css_result = <<>>
    /\ css_pc = "off"

\* css_file is called on a text
InitCssFile ==
    /\ css_text \in CssTexts
    /\ css_input = css_text
    /\ css_result = <<>>
    /\ css_pc = "loop"

NextCss ==
    \/ CssFileRule
    \/ CssFileSkip
    \/ CssFileGiveUp
    \/ CssFileReturn

----------------------------------------------------------------------------
(* The tokenizer (html-lexer/src/lib.rs).  A str is a sequence of one-     *)
(* character strings; a parser gives [ok, rest, ...], and [ok, panics] if  *)
(* an expect inside it fails.  The entity tables are generated from the    *)
(* WHATWG list at build time; of them the model has "&amp;" and "&amp".    *)

Take(s, n) == SubSeq(s, 1, n)
Drop(s, n) == SubSeq(s, n + 1, Len(s))
StartsWith(s, prefix) == Len(s) >= Len(prefix) /\ Take(s, Len(prefix)) = prefix

\* char::to_ascii_lowercase on the letters of the model
to_ascii_lowercase_char(c) ==
    CASE c = "S" -> "s"
      [] c = "T" -> "t"
      [] c = "Y" -> "y"
      [] c = "L" -> "l"
      [] c = "E" -> "e"
      [] OTHER -> c

\* tag_no_case
StartsWithNoCase(s, prefix) ==
    /\ Len(s) >= Len(prefix)
    /\ \A i \in DOMAIN prefix :
          to_ascii_lowercase_char(s[i]) = to_ascii_lowercase_char(prefix[i])

\* the characters of the model
LexChars ==
    {"<", ">", "&", "!", "-", "/", "=", "\"", "'", ";", " ",
     "a", "m", "p", "s", "t", "y", "l", "e", "c", "r", "i", "S", "T", "Y", "L", "E"}

\* char::is_ascii_alphanumeric, char::is_ascii_whitespace
AsciiAlphanumeric ==
    {"a", "m", "p", "s", "t", "y", "l", "e", "c", "r", "i", "S", "T", "Y", "L", "E"}
AsciiWhitespace == {" "}

\* take_while: the length of the longest prefix of s with characters of set
TakeWhileLen(s, set) ==
    CHOOSE n \in 0..Len(s) :
        /\ \A i \in 1..n : s[i] \in set
        /\ n = Len(s) \/ s[n + 1] \notin set

Failed == [ok |-> FALSE]
Panicked == [ok |-> FALSE, panics |-> TRUE]
Panics(r) == "panics" \in DOMAIN r

\* sequencing of parsers (tuple, preceded, `?`): K on the result r of the
\* first, or the failure of the first
AndThen(r, K(_)) == IF r.ok THEN K(r) ELSE r

\* alt, and `if let Ok(..) = ..` followed by more code: the result r of the
\* first unless it is an Err
OrElse(r, other) == IF r.ok \/ Panics(r) THEN r ELSE other

\* take_while1 of the characters of set
take_while1(s, set) ==
    IF TakeWhileLen(s, set) >= 1
    THEN [ok |-> TRUE, rest |-> Drop(s, TakeWhileLen(s, set)),
          value |-> Take(s, TakeWhileLen(s, set))]
    ELSE Failed

\* tag(prefix)
tag(s, prefix) ==
    IF StartsWith(s, prefix)
    THEN [ok |-> TRUE, rest |-> Drop(s, Len(prefix)), value |-> prefix]
    ELSE Failed

\* html_ident
html_ident(s) == take_while1(s, AsciiAlphanumeric \cup {"?", ":", "-"})

\* html_space
html_space(s) == take_while1(s, AsciiWhitespace)

\* opt(html_space): what is left of s
SkipSpace(s) == Drop(s, TakeWhileLen(s, AsciiWhitespace))

\* ENTITIES_WITH_SEMICOLON, ENTITIES_WITHOUT_SEMICOLON
AmpSemicolon == <<"&", "a", "m", "p", ";">>
Amp == <<"&", "a", "m", "p">>

\* mutant: html_entity without its last branch
html_entity_only(in_attr, s) ==
    IF StartsWith(s, AmpSemicolon)
    THEN [ok |-> TRUE, rest |-> Drop(s, Len(AmpSemicolon)), value |-> <<"&">>]
    ELSE IF StartsWith(s, Amp)
    THEN IF in_attr /\ Drop(s, Len(Amp)) # <<>>
            /\ (s[Len(Amp) + 1] = "=" \/ s[Len(Amp) + 1] \in AsciiAlphanumeric)
         THEN [ok |-> TRUE, rest |-> Drop(s, Len(Amp)), value |-> Amp]
         ELSE [ok |-> TRUE, rest |-> Drop(s, Len(Amp)), value |-> <<"&">>]
    ELSE Failed

\* html_entity
html_entity(in_attr, s) ==
    IF StartsWith(s, AmpSemicolon)
    THEN [ok |-> TRUE, rest |-> Drop(s, Len(AmpSemicolon)), value |-> <<"&">>]
    ELSE IF StartsWith(s, Amp)
    THEN IF in_attr /\ Drop(s, Len(Amp)) # <<>>
            /\ (s[Len(Amp) + 1] = "=" \/ s[Len(Amp) + 1] \in AsciiAlphanumeric)
         THEN [ok |-> TRUE, rest |-> Drop(s, Len(Amp)), value |-> Amp]
         ELSE [ok |-> TRUE, rest |-> Drop(s, Len(Amp)), value |-> <<"&">>]
    ELSE IF s = <<>> THEN Failed
    ELSE [ok |-> TRUE, rest |-> Drop(s, 1), value |-> Take(s, 1)]

\* html_text
html_text(in_attr, s) ==
    OrElse(take_while1(s, LexChars \ {"<", "&"}),
           OrElse(html_entity(in_attr, s), tag(s, <<"<">>)))

RECURSIVE quoted_attr_value(_)
\* quoted_attr_value: html_text(true) until the input is empty, with expect
quoted_attr_value(s) ==
    IF s = <<>> THEN [ok |-> TRUE, rest |-> s, value |-> <<>>]
    ELSE AndThen(OrElse(html_text(TRUE, s), Panicked),
                 LAMBDA text :
                     AndThen(quoted_attr_value(text.rest),
                             LAMBDA more : [more EXCEPT !.value = text.value \o @]))

\* delimited(char(quote), map_parser(take_while(|c| c != quote),
\* quoted_attr_value), char(quote))
QuotedValue(s, quote) ==
    AndThen(tag(s, <<quote>>),
            LAMBDA open :
                AndThen(quoted_attr_value(Take(open.rest,
                                               TakeWhileLen(open.rest, LexChars \ {quote}))),
                        LAMBDA inner :
                            AndThen(tag(Drop(open.rest,
                                             TakeWhileLen(open.rest, LexChars \ {quote})),
                                        <<quote>>),
                                    LAMBDA close :
                                        [ok |-> TRUE, rest |-> close.rest,
                                         value |-> inner.value])))

\* the unquoted form of html_attr_value: take_while, which may take nothing;
\* it also stops at a backquote, which is not a character of the model
UnquotedValue(s) ==
    [ok |-> TRUE,
     rest |-> Drop(s, TakeWhileLen(s, LexChars \ (AsciiWhitespace
                                                  \cup {"\"", "'", "=", "<", ">"}))),
     value |-> Take(s, TakeWhileLen(s, LexChars \ (AsciiWhitespace
                                                   \cup {"\"", "'", "=", "<", ">"})))]

\* html_attr_value
html_attr_value(s) ==
    OrElse(QuotedValue(s, "\""), OrElse(QuotedValue(s, "'"), UnquotedValue(s)))

\* html_attr
html_attr(s) ==
    AndThen(html_space(s),
            LAMBDA space :
                AndThen(html_ident(space.rest),
                        LAMBDA name :
                            OrElse(AndThen(tag(SkipSpace(name.rest), <<"=">>),
                                           LAMBDA equals :
                                               AndThen(html_attr_value(SkipSpace(equals.rest)),
                                                       LAMBDA value :
                                                           [ok |-> TRUE, rest |-> value.rest,
                                                            attr |-> <<name.value,
                                                                       value.value>>])),
                                   [ok |-> TRUE, rest |-> name.rest,
                                    attr |-> <<name.value, <<>>>>])))

RECURSIVE many0_html_attr(_)
\* many0(html_attr)
many0_html_attr(s) ==
    OrElse(AndThen(html_attr(s),
                   LAMBDA first :
                       AndThen(many0_html_attr(first.rest),
                               LAMBDA more : [more EXCEPT !.attrs = <<first.attr>> \o @])),
           [ok |-> TRUE, rest |-> s, attrs |-> <<>>])

\* opt(tag("/")): what is left of s, and whether the slash was there
SkipSlash(s) == IF StartsWith(s, <<"/">>) THEN Drop(s, 1) ELSE s

\* html_tag
html_tag(s) ==
    AndThen(tag(s, <<"<">>),
            LAMBDA open :
                AndThen(html_ident(SkipSlash(open.rest)),
                        LAMBDA name :
                            AndThen(many0_html_attr(name.rest),
                                    LAMBDA attrs :
                                        AndThen(tag(SkipSlash(SkipSpace(attrs.rest)), <<">">>),
                                                LAMBDA close :
                                                    [ok |-> TRUE, rest |-> close.rest,
                                                     token |->
                                                         [kind |-> "Tag",
                                                          closing |-> StartsWith(open.rest,
                                                                                 <<"/">>),
                                                          name |-> name.value,
                                                          attrs |-> attrs.attrs]]))))

\* shortest_until_tag_no_case: Err(Incomplete) when the tag is not found
shortest_until_tag_no_case(s, end) ==
    LET found == { i \in 0..Len(s) : StartsWithNoCase(Drop(s, i), end) }
        index == CHOOSE i \in found : \A j \in found : i <= j
    IN  IF found = {} THEN Failed
        ELSE [ok |-> TRUE, rest |-> Drop(s, index + Len(end)), value |-> Take(s, index)]

\* html_script and html_style: the start tag begins with `start`, the end
\* tag is `end`
RawText(kind, start, end, s) ==
    IF ~StartsWithNoCase(s, start) THEN Failed
    ELSE AndThen(many0_html_attr(Drop(s, Len(start))),
                 LAMBDA attrs :
                     AndThen(tag(SkipSpace(attrs.rest), <<">">>),
                             LAMBDA close :
                                 AndThen(shortest_until_tag_no_case(close.rest, end),
                                         LAMBDA text :
                                             [ok |-> TRUE, rest |-> text.rest,
                                              token |-> [kind |-> kind,
                                                         attrs |-> attrs.attrs,
                                                         text |-> text.value]])))

\* html_script
html_script(s) ==
    RawText("Script", <<"<", "s", "c", "r", "i", "p", "t">>,
            <<"<", "/", "s", "c", "r", "i", "p", "t", ">">>, s)

\* html_style
html_style(s) ==
    RawText("Style", <<"<", "s", "t", "y", "l", "e">>,
            <<"<", "/", "s", "t", "y", "l", "e", ">">>, s)

\* html_comment
html_comment(s) ==
    AndThen(tag(s, <<"<", "!", "-", "-">>),
            LAMBDA open :
                AndThen(shortest_until_tag_no_case(open.rest, <<"-", "-", ">">>),
                        LAMBDA text :
                            [ok |-> TRUE, rest |-> text.rest,
                             token |-> [kind |-> "Comment", text |-> text.value]]))

\* html_doctype
html_doctype(s) ==
    AndThen(tag(s, <<"<", "!">>),
            LAMBDA open :
                AndThen(shortest_until_tag_no_case(open.rest, <<">">>),
                        LAMBDA text :
                            [ok |-> TRUE, rest |-> text.rest,
                             token |-> [kind |-> "Doctype", text |-> text.value]]))

\* html_token
html_token(s) ==
    OrElse(html_comment(s),
    OrElse(html_script(s),
    OrElse(html_style(s),
    OrElse(html_tag(s),
    OrElse(html_doctype(s),
           AndThen(html_text(FALSE, s),
                   LAMBDA text :
                       [ok |-> TRUE, rest |-> text.rest,
                        token |-> [kind |-> "Text", text |-> text.value]]))))))

\* one turn of the loop of parse_html: html_token, and bail! on Err
ParseHtmlToken ==
    /\ html_pc = "loop"
    /\ html_input # <<>>
    /\ LET result == html_token(html_input)
       IN  IF Panics(result)
           THEN html_pc' = "panicked" /\ UNCHANGED <<html_input, html_tokens>>
           ELSE IF ~result.ok
           THEN html_pc' = "error" /\ UNCHANGED <<html_input, html_tokens>>
           ELSE /\ html_input' = result.rest
                /\ html_tokens' = Append(html_tokens, result.token)
                /\ UNCHANGED html_pc
    /\ UNCHANGED html_body
    /\ UNCHANGED <<docVars, browserVars, treeVars, styleVars, matchVars, layoutVars, cssVars>>

\* input.is_empty(): the loop of parse_html ends
ParseHtmlEnd ==
    /\ html_pc = "loop"
    /\ html_input = <<>>
    /\ html_pc' = "returned"
    /\ UNCHANGED <<html_body, html_input, html_tokens>>
    /\ UNCHANGED <<docVars, browserVars, treeVars, styleVars, matchVars, layoutVars, cssVars>>

MaxPieces == 3

\* what response bodies are made of: single characters, the ends of
\* comments, doctypes, entities, style and script elements, an attribute
\* with a quoted value and the start of one
LexPieces ==
    { <<"<">>, <<">">>, <<"&">>, <<"a">>, <<" ">>, <<"/">>, <<";">>,
      <<"<", "!">>, <<"<", "!", "-", "-">>, <<"-", "-", ">">>,
      <<"&", "a", "m", "p">>,
      <<"<", "s", "t", "y", "l", "e">>, <<"<", "/", "S", "T", "Y", "L", "E", ">">>,
      <<"<", "s", "c", "r", "i", "p", "t", ">">>,
      <<"<", "/", "s", "c", "r", "i", "p", "t", ">">>,
      <<" ", "a", "=", "\"", "&", "a", "m", "p", "=", "\"">>,
      <<" ", "a", "=", "\"">> }

RECURSIVE Concat(_)
Concat(pieces) == IF pieces = <<>> THEN <<>> ELSE Head(pieces) \o Concat(Tail(pieces))

ResponseBodies == { Concat(pieces) : pieces \in UNION { [1..n -> LexPieces] : n \in 0..MaxPieces } }

IdleLexer ==
    /\ html_body = <<>>
    /\ html_input = <<>>
    /\ html_tokens = <<>>
    /\ html_pc = "off"

\* parse_html is called on a response body
InitLexer ==
    /\ html_body \in ResponseBodies
    /\ html_input = html_body
    /\ html_tokens = <<>>
    /\ html_pc = "loop"

NextLexer == ParseHtmlToken \/ ParseHtmlEnd

----------------------------------------------------------------------------
(* Specifications *)

Init == InitDoc /\ IdleBrowser /\ IdleTree /\ IdleStyle /\ IdleMatch /\ IdleLayout /\ IdleCss /\ IdleLexer
Next == Navigate \/ Tick \/ InvalidateLayout
Spec == Init /\ [][Next]_vars

InitB == IdleDoc /\ InitBrowser /\ IdleTree /\ IdleStyle /\ IdleMatch /\ IdleLayout /\ IdleCss /\ IdleLexer
NextB == UpdateTick \/ UpdateLocationBar \/ UpdateViewport \/ UpdateRelayout
SpecBrowser == InitB /\ [][NextB]_vars

InitT == IdleDoc /\ IdleBrowser /\ InitTree /\ IdleStyle /\ IdleMatch /\ IdleLayout /\ IdleCss /\ IdleLexer
NextT ==
    \/ TokenComment
    \/ TokenText
    \/ TokenScript
    \/ TokenStyle
    \/ TokenStartTag
    \/ TokenEndTag
    \/ TokenError
    \/ EndOfInput
SpecTree == InitT /\ [][NextT]_vars

InitS == IdleDoc /\ IdleBrowser /\ IdleTree /\ InitStyle /\ IdleMatch /\ IdleLayout /\ IdleCss /\ IdleLexer
SpecStyle == InitS /\ [][NextStyle]_vars

InitM == IdleDoc /\ IdleBrowser /\ IdleTree /\ IdleResolver /\ InitMatch /\ IdleLayout /\ IdleCss /\ IdleLexer
SpecMatch == InitM /\ [][NextMatch]_vars

InitG ==
    /\ IdleDoc /\ IdleBrowser /\ IdleTree /\ IdleStyle /\ IdleMatch /\ IdleCss /\ IdleLexer
    /\ InitLayoutOn(LayoutTreesOf(BoxNodeKinds, MaxBoxNodes))
SpecBoxes == InitG /\ [][NextLayout]_vars

InitL ==
    /\ IdleDoc /\ IdleBrowser /\ IdleTree /\ IdleStyle /\ IdleMatch /\ IdleCss /\ IdleLexer
    /\ InitLayoutOn(LayoutTreesOf(GeometryNodeKinds, MaxLayoutNodes))
SpecLayout == InitL /\ [][NextLayout]_vars

InitC ==
    /\ IdleDoc /\ IdleBrowser /\ IdleTree /\ IdleStyle /\ IdleMatch /\ IdleLayout
    /\ InitCssFile /\ IdleLexer
SpecCss == InitC /\ [][NextCss]_vars

InitX ==
    /\ IdleDoc /\ IdleBrowser /\ IdleTree /\ IdleStyle /\ IdleMatch /\ IdleLayout
    /\ IdleCss /\ InitLexer
SpecLexer == InitX /\ [][NextLexer]_vars

\* frames keep coming, and each update runs to its end
SpecBrowserFair ==
    /\ SpecBrowser
    /\ WF_vars(UpdateTick)
    /\ WF_vars(UpdateLocationBar)
    /\ WF_vars(UpdateViewport)
    /\ WF_vars(UpdateRelayout)

----------------------------------------------------------------------------
(* Claims about the document state machine (Spec)                          *)

PhaseAfter(status) ==
    CASE status = "None" -> "None"
      [] status = "Navigated" -> "Loaded"
      [] status = "Loaded" -> "Parsed"
      [] status = "Parsed" -> "Styled"
      [] status = "Styled" -> "LaidOut"
      [] status = "LaidOut" -> "LaidOut"

PhaseRank(status) ==
    CASE status = "Navigated" -> 0
      [] status = "Loaded" -> 1
      [] status = "Parsed" -> 2
      [] status = "Styled" -> 3
      [] status = "LaidOut" -> 4

TickStep == last'.op = "tick"
OkTickStep == TickStep /\ last'.ok

\* C1: a successful tick moves the document to the phase that follows its
\* own (None and LaidOut stay), never further; hence a document that was
\* navigated and never invalidated is in phase min(n, 4) after n successful
\* ticks, and is LaidOut after exactly four.
C1_OnePhasePerTick ==
    /\ [][OkTickStep => doc'.status = PhaseAfter(doc.status)]_vars
    /\ []((doc.status # "None" /\ ~invalidated) =>
            PhaseRank(doc.status) = IF okTicks < 4 THEN okTicks ELSE 4)

C1_Witness ==
    /\ last.op = "tick"
    /\ last.ok
    /\ last.self.status = "Styled"
    /\ doc.status = "LaidOut"
    /\ okTicks = 4
    /\ ~invalidated

\* C2: invalidate_layout turns LaidOut into Styled with the same location,
\* response body and DOM and nothing else, leaves every other state as it
\* is, and a second application changes nothing.
C2_InvalidateLayout ==
    [][last'.op = "invalidate_layout" =>
        /\ doc.status = "LaidOut" =>
              /\ doc'.status = "Styled"
              /\ DOMAIN doc' = {"status", "location", "response_body", "dom"}
              /\ doc'.location = doc.location
              /\ doc'.response_body = doc.response_body
              /\ doc'.dom = doc.dom
        /\ doc.status # "LaidOut" => doc' = doc
        /\ last.op = "invalidate_layout" => doc' = doc]_vars

C2_Witness ==
    /\ last.op = "invalidate_layout"
    /\ last.twice
    /\ last.self.status = "Styled"
    /\ doc.status = "Styled"
    /\ Len(doc.dom.nodes) > 0

\* bodies of the model that are not UTF-8
NotUtf8 == { <<255>>, <<195>> }

\* "<h1>[http 404]</h1>" and "<h1>[http 500]</h1>"
Http404Body == <<60, 104, 49, 62, 91, 104, 116, 116, 112, 32, 52, 48, 52, 93, 60, 47, 104, 49, 62>>
Http500Body == <<60, 104, 49, 62, 91, 104, 116, 116, 112, 32, 53, 48, 48, 93, 60, 47, 104, 49, 62>>

\* C4: a tick from Navigated returns Loaded for every reply of the HTTP
\* collaborator: with the reply's body for status 200 or 204, with
\* <h1>[http N]</h1> for any other status N, with a body that starts with
\* <h1>[network error]</h1> for a transport error; it fails only when the
\* body of a 200 or 204 reply is not UTF-8.
C4_LoadNeverAborts ==
    [][(TickStep /\ doc.status = "Navigated") =>
        LET h == last'.env.http
        IN  /\ (h.ok /\ h.status \in {200, 204} /\ h.body \notin NotUtf8) =>
                  /\ last'.ok
                  /\ doc' = Loaded(doc.location, h.body)
            /\ (h.ok /\ h.status = 404) =>
                  (last'.ok /\ doc' = Loaded(doc.location, Http404Body))
            /\ (h.ok /\ h.status = 500) =>
                  (last'.ok /\ doc' = Loaded(doc.location, Http500Body))
            /\ ~h.ok =>
                  /\ last'.ok
                  /\ doc'.status = "Loaded"
                  /\ doc'.location = doc.location
                  /\ SubSeq(doc'.response_body, 1, 24) = H1NetworkError
                  /\ doc'.response_body = H1NetworkError \o h.error
            /\ ~last'.ok => (h.ok /\ h.status \in {200, 204} /\ h.body \in NotUtf8)]_vars

C4_Witness ==
    /\ last.op = "tick"
    /\ last.self.status = "Navigated"
    /\ ~last.env.http.ok
    /\ doc.status = "Loaded"

\* the rules of the sheets of the model, read off by hand
RulesOfSheet(text) ==
    CASE text = <<97, 123, 125>> -> << <<97>> >>
      [] text = <<49, 123, 125, 98, 123, 125, 99, 123>> -> << <<98>> >>
      [] text = <<115, 123, 125>> -> << <<115>> >>
      [] text = <<49, 123, 125, 116, 123, 125>> -> << <<116>> >>
      [] OTHER -> <<>>

\* the rules a reply to a stylesheet request contributes: none unless it is
\* a 200 with a UTF-8 body
RulesOfReply(r) ==
    IF r.ok /\ r.status = 200 /\ r.body \notin NotUtf8 THEN RulesOfSheet(r.body) ELSE <<>>

FailedReply(r) == ~(r.ok /\ r.status = 200 /\ r.body \notin NotUtf8)

IsSheetLink(x) ==
    /\ x.name = "link"
    /\ \E i \in DOMAIN x.attrs :
          x.attrs[i][1] = "rel" /\ x.attrs[i][2] \in {"stylesheet", "alternate STYLESHEET"}
    /\ \E i \in DOMAIN x.attrs : x.attrs[i][1] = "href"

Range(q) == {q[i] : i \in DOMAIN q}

RECURSIVE Flatten(_)
Flatten(qq) == IF qq = <<>> THEN <<>> ELSE Head(qq) \o Flatten(Tail(qq))

\* number of sheet links among the first n nodes
SheetLinksUpTo(ns, n) == Cardinality({i \in 1..n : IsSheetLink(ns[i])})

\* per node, the rules it contributes (replies are numbered by sheet link)
RulesOfNode(ns, replies, i) ==
    IF IsSheetLink(ns[i]) THEN RulesOfReply(replies[SheetLinksUpTo(ns, i)])
    ELSE IF ns[i].name = "style" THEN RulesOfSheet(ns[i].text)
    ELSE <<>>

LinkRulesInOrder(ns, replies) ==
    Flatten([i \in DOMAIN ns |->
                IF IsSheetLink(ns[i]) THEN RulesOfNode(ns, replies, i) ELSE <<>>])
StyleRulesInOrder(ns, replies) ==
    Flatten([i \in DOMAIN ns |->
                IF ns[i].name = "style" THEN RulesOfNode(ns, replies, i) ELSE <<>>])
AuthorRulesInDocumentOrder(ns, replies) ==
    Flatten([i \in DOMAIN ns |-> RulesOfNode(ns, replies, i)])

StyleTick == TickStep /\ doc.status = "Parsed"

C6_DocumentOrder ==
    [][StyleTick =>
        doc'.dom.style =
            << <<117>> >> \o AuthorRulesInDocumentOrder(doc.dom.nodes, last'.env.links)]_vars

\* C6 amended: the rule list is the user-agent sheet, then the rules of the
\* link sheets in document order, then the rules of the style elements in
\* document order.
C6_LinksThenStyles ==
    [][StyleTick =>
        doc'.dom.style =
            << <<117>> >> \o LinkRulesInOrder(doc.dom.nodes, last'.env.links)
                \o StyleRulesInOrder(doc.dom.nodes, last'.env.links)]_vars

C6_Witness ==
    /\ last.op = "tick"
    /\ last.self.status = "Parsed"
    /\ Len(last.self.dom.nodes) = 2
    /\ last.self.dom.nodes[1].name = "style"
    /\ IsSheetLink(last.self.dom.nodes[2])
    /\ doc.status = "Styled"
    /\ doc.dom.style = << <<117>>, <<97>>, <<115>> >>

----------------------------------------------------------------------------
(* Claims about the driver (SpecBrowser, SpecBrowserFair)                  *)

BrowserTickStep == seen'.step = "tick"
FailedTick == seen.step = "tick" /\ ~seen.ok

\* C3 as claimed: after a tick that failed, the in-progress document is
\* the one the tick started from.
C3_StateKeptOnFailure == FailedTick => next_document = seen.taken

\* C7: the completed slot holds no document or a LaidOut one, the
\* in-progress slot never holds a LaidOut one; a tick changes the completed
\* slot only by moving in the document it has just laid out, which empties
\* the in-progress slot, and it does so whenever its phase was the layout.
C7_CompletedSlot ==
    /\ [](document.status \in {"None", "LaidOut"})
    /\ [](next_document.status # "LaidOut")
    /\ [][BrowserTickStep =>
            IF seen'.ok /\ next_document.status = "Parsed"
            THEN /\ document'.status = "LaidOut"
                 /\ document'.location = next_document.location
                 /\ document'.response_body = next_document.response_body
                 /\ document'.dom = next_document.dom
                 /\ next_document' = None
            ELSE document' = document]_vars

C7_Witness ==
    /\ seen.step = "tick"
    /\ seen.ok
    /\ seen.taken.status = "Parsed"
    /\ document.status = "LaidOut"
    /\ document.location = seen.taken.location
    /\ next_document = None

OldPhaseAfter(status) ==
    CASE status = "None" -> "None"
      [] status = "Navigated" -> "Loaded"
      [] status = "Loaded" -> "Parsed"
      [] status = "Parsed" -> "LaidOut"

UpToDate == document.status = "LaidOut" /\ ViewportEq(document.viewport, viewport)
NoFailure == [](pc # "panicked")
ViewportSettles == <>[][viewport' = viewport]_viewport
NavigationStops == <>[](~(seen.step = "ui" /\ seen.clicked))

----------------------------------------------------------------------------
(* Claims about the tree constructor (SpecTree)                            *)

\* the tree parse_html returns: the handle stack[0]
Root == stack[1]
NodeIds == DOMAIN nodes

\* how often c occurs in the child list of p
Occurrences(p, c) == Cardinality({i \in DOMAIN nodes[p].children : nodes[p].children[i] = c})

RECURSIVE Within(_, _)
\* the nodes held alive by n through child lists, n included (k bounds the depth)
Within(n, k) ==
    IF k = 0 THEN {n}
    ELSE {n} \cup UNION {Within(nodes[n].children[i], k - 1) : i \in DOMAIN nodes[n].children}

\* C10: in the tree that is returned, the root is a Document and no other
\* node is; every other node is held by the tree, its parent link names a
\* node of the tree whose child list holds it exactly once, and no other
\* child list holds it; Text and Comment nodes have no children.
C10_WellFormedTree ==
    outcome = "returned" =>
        /\ nodes[Root].type = "Document"
        /\ nodes[Root].parent = 0
        /\ \A n \in NodeIds \ {Root} :
              /\ nodes[n].type # "Document"
              /\ n \in Within(Root, Len(nodes))
              /\ nodes[n].parent \in Within(Root, Len(nodes))
              /\ Occurrences(nodes[n].parent, n) = 1
              /\ \A p \in NodeIds \ {nodes[n].parent} : Occurrences(p, n) = 0
        /\ \A n \in NodeIds :
              nodes[n].type \in {"Text", "Comment"} => nodes[n].children = <<>>

C10_Witness ==
    /\ outcome = "returned"
    /\ Len(nodes) = 4
    /\ Len(nodes[Root].children) = 2
    /\ names_stack = <<"p">>
    /\ \E n \in NodeIds : nodes[n].type = "Text" /\ nodes[n].parent # Root

Elements == {n \in NodeIds : nodes[n].type = "Element"}
IsLowercase(name) == to_ascii_lowercase(name) = name

\* C11 as claimed: every element name and every attribute name of a tree
\* that is returned is ASCII-lowercase.
C11_NamesLowercase ==
    outcome = "returned" =>
        \A n \in Elements :
            /\ IsLowercase(nodes[n].name)
            /\ \A i \in DOMAIN nodes[n].attrs : IsLowercase(nodes[n].attrs[i][1])

\* C12: an element whose name is in the void set has no children, is not
\* on the stack of open elements and is not the current parent, at every
\* point of the construction.
C12_VoidElementsChildless ==
    \A n \in Elements :
        nodes[n].name \in {"!doctype", "area", "base", "br", "col", "embed", "hr", "img",
                           "input", "link", "meta", "param", "source", "track", "wbr"} =>
            /\ nodes[n].children = <<>>
            /\ \A i \in DOMAIN stack : stack[i] # n
            /\ parent # n

\* <p><br>text: the text is a sibling of the br
C12_Witness ==
    /\ outcome = "returned"
    /\ token.kind = "Text"
    /\ \E n \in Elements :
          /\ nodes[n].name = "br"
          /\ nodes[nodes[n].parent].type = "Element"
          /\ nodes[nodes[n].parent].children = <<n, n + 1>>
          /\ nodes[n + 1].type = "Text"

\* C13 as claimed: when the input has ended, no element is left on the
\* stack of open elements.
C13_StackEmptyAtEof == outcome = "returned" => (names_stack = <<>> /\ stack = <<Root>>)

\* C16 as claimed: the tree constructor never panics.
C16_NeverPanics == outcome # "panicked"

\* the direct nestings the NO-NEST table is there to prevent
Headings == {"h1", "h2", "h3", "h4", "h5", "h6"}
NoDirectChild(parentName, childName) ==
    \/ parentName = "p" /\ childName \in {"p", "table", "form"} \cup Headings
    \/ parentName = "li" /\ childName = "li"
    \/ parentName \in {"dt", "dd"} /\ childName \in {"dt", "dd"}
    \/ parentName \in {"td", "th"} /\ childName \in {"td", "th"}
    \/ parentName = "tr" /\ childName = "tr"

StartTagStep == TokenStartTag /\ outcome' = "running"

\* the open-element names the new element was appended under
NamesAtAppend ==
    IF token'.name \in SELF_CLOSING THEN names_stack'
    ELSE SubSeq(names_stack', 1, Len(names_stack') - 1)

\* C14: on a start tag, every table entry for its name whose suffix the
\* stack ends with has been popped when the element is appended (what is
\* left is a prefix of the stack that ends with no suffix for that name);
\* so no tree under construction holds one of the direct nestings.
C14_NoNest ==
    /\ [][StartTagStep =>
            /\ Len(NamesAtAppend) <= Len(names_stack)
            /\ NamesAtAppend = SubSeq(names_stack, 1, Len(NamesAtAppend))
            /\ \A i \in DOMAIN NO_NEST :
                  token'.name \in NO_NEST[i][1] =>
                      /\ ~ends_with(NamesAtAppend, NO_NEST[i][2])
                      /\ ends_with(names_stack, NO_NEST[i][2]) =>
                            Len(NamesAtAppend) <= Len(names_stack) - Len(NO_NEST[i][2])]_vars
    /\ [](\A n \in Elements :
            nodes[n].parent # 0 =>
                ~NoDirectChild(nodes[nodes[n].parent].name, nodes[n].name))

\* <tr><td><tr>: the second tr closed the td and the first tr
C14_Witness ==
    /\ outcome = "returned"
    /\ token = [kind |-> "Tag", closing |-> FALSE, name |-> "tr", attrs |-> <<>>]
    /\ names_stack = <<"tr">>
    /\ Len(nodes[Root].children) = 2
    /\ \E n \in Elements : nodes[n].name = "td" /\ nodes[nodes[n].parent].name = "tr"

EndTagStep == TokenEndTag

\* the open elements an end tag for `name` names: same name, ASCII case ignored
SameName(x, y) ==
    \/ x = y
    \/ {x, y} \in {{"p", "P"}, {"br", "BR"}}
OpenMatches(name) == {i \in DOMAIN names_stack : SameName(names_stack[i], name)}
Deepest(S) == CHOOSE i \in S : \A j \in S : j <= i

\* C15: an end tag pops the stack down to and including the deepest open
\* element with its name and makes the parent of that element the current
\* parent; an end tag without an open element of its name changes neither
\* the stack, the current parent nor the tree.  The tree is never changed
\* by an end tag.
C15_EndTag ==
    [][EndTagStep =>
        /\ nodes' = nodes
        /\ outcome' = "running"
        /\ IF OpenMatches(token'.name) = {}
           THEN /\ stack' = stack
                /\ names_stack' = names_stack
                /\ parent' = parent
           ELSE LET i == Deepest(OpenMatches(token'.name))
                IN  /\ names_stack' = SubSeq(names_stack, 1, i - 1)
                    /\ stack' = SubSeq(stack, 1, i)
                    /\ parent' = nodes[stack[i + 1]].parent
                    /\ parent' = stack[i]]_vars

\* <div><p></div>: the end tag closed the p and the div
C15_Witness ==
    /\ outcome = "running"
    /\ token = [kind |-> "Tag", closing |-> TRUE, name |-> "div"]
    /\ Len(nodes) = 3
    /\ nodes[3].name = "p"
    /\ nodes[3].parent = 2
    /\ names_stack = <<>>
    /\ parent = Root

----------------------------------------------------------------------------
(* Style resolution *)

StyledTypes == {"Element", "Text"}

\* the position of node n in the order of resolution, 0 when not resolved
ResolvedAt(n) ==
    IF \E k \in DOMAIN visited : visited[k] = n
    THEN CHOOSE k \in DOMAIN visited : visited[k] = n
    ELSE 0

\* the inherited properties of st with every other property initial
InheritedFrom(st) ==
    [display |-> SomeOf("inline"), font |-> st.font, color |-> st.color]

\* C17: after resolve_styles every element and every text node has had its
\* style computed, exactly once; a node is resolved after its parent, so
\* the style of an element is the one the Element arm computes from the
\* parent's final style, and the style of a text node is the parent's final
\* style with the inherited properties (font, color) kept and the rest initial
C17_StylesResolved ==
    /\ styling = "done" =>
          \A n \in DOMAIN dom_tree :
              dom_tree[n].type \in StyledTypes => ResolvedAt(n) # 0
    /\ \A k \in DOMAIN visited :
          LET n == visited[k]
              up == dom_tree[n].parent
              parent_style == NodeData_style(dom_tree, up)
          IN  /\ \A j \in DOMAIN visited : visited[j] = n => j = k
              /\ dom_tree[up].type = "Document" \/ ResolvedAt(up) \in 1..(k - 1)
              /\ dom_tree[n].type = "Text" =>
                    dom_tree[n].style = InheritedFrom(parent_style)
              /\ dom_tree[n].type = "Element" =>
                    dom_tree[n].style = ElementStyle(dom_tree, n, rule_list)

\* resolution has returned on a document with a text in an element whose
\* font size a rule set to 20px, and the text has that font size
C17_Witness ==
    /\ styling = "done"
    /\ \E n \in DOMAIN dom_tree :
          /\ dom_tree[n].type = "Text"
          /\ dom_tree[dom_tree[n].parent].type = "Element"
          /\ font_size(dom_tree[dom_tree[n].parent].style) = 20
          /\ font_size(dom_tree[n].style) = 20

\* the declarations that apply to element n, in the order of the cascade of
\* the specification: those of the rules with a matching selector in the
\* order of the rule list, then those of the style attribute
RECURSIVE RuleDeclarations(_, _)
RuleDeclarations(n, rules) ==
    IF rules = <<>> THEN <<>>
    ELSE (IF \E k \in DOMAIN Head(rules)[1] : match_complex(dom_tree, n, Head(rules)[1][k])
          THEN Head(rules)[2] ELSE <<>>)
         \o RuleDeclarations(n, Tail(rules))

Applicable(n) ==
    RuleDeclarations(n, rule_list)
    \o (IF IsSome(dom_tree[n].inline) THEN Unwrap(dom_tree[n].inline) ELSE <<>>)

CascadedProperties == {"color", "font-size", "font-weight", "font-style"}

\* a declaration whose name is a property of the model and whose value parses
IsValid(decl) ==
    CASE decl[1] = "color" -> IsSome(CssColor_parse(decl[2]))
      [] decl[1] = "font-size" -> IsSome(CssLength_parse(decl[2]))
      [] decl[1] = "font-weight" -> decl[2] \in {"normal", "bold"}
      [] decl[1] = "font-style" -> decl[2] \in {"normal", "italic"}
      [] decl[1] = "display" -> TRUE
      [] OTHER -> FALSE

\* the value of property in style st
ValueOf(st, property) ==
    CASE property = "color" -> color_of(st)
      [] property = "font-size" -> font_size(st)
      [] property = "font-weight" -> font_weight(st)
      [] property = "font-style" -> font_style(st)
      [] property = "display" -> Unwrap(st.display)

\* the value a valid declaration gives its property under parent_style
DeclaredValue(decl, parent_style) ==
    CASE decl[1] = "color" ->
            IF decl[2] = "currentColor" THEN color_of(parent_style) ELSE decl[2]
      [] decl[1] = "font-size" ->
            (CASE decl[2] = "20px" -> 20
               [] decl[2] = "2em" -> 2 * font_size(parent_style)
               [] decl[2] = "0" -> 0)
      [] decl[1] = "font-weight" -> IF decl[2] = "bold" THEN "Bold" ELSE "Normal"
      [] decl[1] = "font-style" -> IF decl[2] = "italic" THEN "Italic" ELSE "Normal"
      [] decl[1] = "display" -> decl[2]

\* the value of property the cascade of the specification gives element n:
\* that of the last valid applicable declaration, else the inherited one
LastValidWins(n, property) ==
    LET decls == Applicable(n)
        parent_style == NodeData_style(dom_tree, dom_tree[n].parent)
        valid == {k \in DOMAIN decls : decls[k][1] = property /\ IsValid(decls[k])}
    IN  IF valid = {} THEN ValueOf(new_inherited(parent_style), property)
        ELSE DeclaredValue(decls[CHOOSE k \in valid : \A j \in valid : j <= k],
                           parent_style)

\* C18: the computed value of a property of a resolved element is that of
\* the last valid declaration of the property among the declarations of the
\* matching rules, in the order of the rule list, followed by those of the
\* style attribute (the inherited value when there is none), whatever the
\* selectors of the rules are
C18_SourceOrder ==
    \A k \in DOMAIN visited :
        dom_tree[visited[k]].type = "Element" =>
            \A property \in CascadedProperties :
                ValueOf(dom_tree[visited[k]].style, property)
                    = LastValidWins(visited[k], property)

AllProperties == {"display", "color", "font-size", "font-weight", "font-style"}

\* C19: a declaration with an unrecognized property name or an unparsable
\* value is dropped: applied to the computed style of an element it applies
\* to, it leaves the value of every property as it was
C19_InvalidDropped ==
    \A k \in DOMAIN visited :
        LET n == visited[k]
            st == dom_tree[n].style
            parent_style == NodeData_style(dom_tree, dom_tree[n].parent)
        IN  dom_tree[n].type = "Element" =>
                \A i \in DOMAIN Applicable(n) :
                    ~IsValid(Applicable(n)[i]) =>
                        \A property \in AllProperties :
                            ValueOf(apply_declaration(st, parent_style, Nothing,
                                                      Applicable(n)[i]), property)
                                = ValueOf(st, property)

----------------------------------------------------------------------------
(* Selector matching *)

\* the nodes a combinator relates to node n
Related(ns, n, combinator) ==
    LET up == walk_up(ns, n)
        left == walk_left(ns, n)
    IN  CASE combinator = "Descendant" -> {up[i] : i \in DOMAIN up}
          [] combinator = "Child" -> {up[i] : i \in DOMAIN up \cap {1}}
          [] combinator = "SubsequentSibling" -> {left[i] : i \in DOMAIN left}
          [] combinator = "NextSibling" -> {left[i] : i \in DOMAIN left \cap {1}}

RECURSIVE RightToLeft(_, _, _, _)
\* the compounds 1..i of combinators match, right to left, nodes related to
\* n and to each other by the combinators between them
RightToLeft(ns, n, combinators, i) ==
    IF i = 0 THEN TRUE
    ELSE \E e \in Related(ns, n, combinators[i][2]) :
            /\ match_compound(ns, e, combinators[i][1])
            /\ RightToLeft(ns, e, combinators, i - 1)

\* C20: match_complex returns true exactly when the rightmost compound
\* matches the node and, going right to left, each preceding compound
\* matches a node related by its combinator to the node matched for the
\* compound on its right
C20_RightToLeft ==
    matched \in {"true", "false"} =>
        (matched = "true"
            <=> /\ match_compound(dom_tree, candidate, complex[2])
                /\ RightToLeft(dom_tree, candidate, complex[1], Len(complex[1])))

----------------------------------------------------------------------------
(* Box generation (SpecBoxes) *)

LayoutNodes == DOMAIN lay_dom \ {1}

\* the layouts whose f has generated its boxes: all but those whose
\* activation is still at its entry
Generated ==
    {b \in DOMAIN layouts :
        /\ laying # "ready"
        /\ \A c \in DOMAIN calls : calls[c].self = b => calls[c].at # "enter"
        /\ b = 1 \/ layouts[b].parent # 0}

\* the display value of node n as declared
DeclaredDisplay(n) ==
    IF IsSome(LayoutNode_style(n).display) THEN Unwrap(LayoutNode_style(n).display)
    ELSE "inline"

RECURSIVE BlockLevel(_)
\* block-level as specified: not a text or comment, and display block,
\* inline-block or list-item or some descendant block-level
BlockLevel(n) ==
    /\ lay_dom[n].type \notin {"Text", "Comment"}
    /\ \/ DeclaredDisplay(n) \in {"block", "inline-block", "list-item"}
       \/ \E k \in DOMAIN lay_dom[n].children : BlockLevel(lay_dom[n].children[k])

\* node n has a box of its own
HasBox(n) == \E b \in DOMAIN layouts : layouts[b].node = n

\* node n is one of the inlines of a box
IsInline(n) ==
    \E b \in DOMAIN layouts : \E k \in DOMAIN layouts[b].inlines : layouts[b].inlines[k] = n

\* C21: among the children of the node of a box, f gives a box exactly to
\* the block-level ones (not text or comment, and display block,
\* inline-block or list-item or a block-level descendant) and makes every
\* other child that is not display: none an inline
C21_BlockLevel ==
    \A b \in Generated :
        layouts[b].node # 0 =>
            \A k \in DOMAIN lay_dom[layouts[b].node].children :
                LET c == lay_dom[layouts[b].node].children[k]
                IN  /\ HasBox(c) <=> BlockLevel(c)
                    /\ ~BlockLevel(c) /\ DeclaredDisplay(c) # "none" => IsInline(c)

RECURSIVE InHiddenSubtree(_)
\* node n or one of its ancestors has display: none
InHiddenSubtree(n) ==
    \/ DeclaredDisplay(n) = "none" /\ lay_dom[n].type = "Element"
    \/ lay_dom[n].parent # 0 /\ InHiddenSubtree(lay_dom[n].parent)

\* C22: no node of the subtree of a display: none element has a box, is an
\* inline of a box or is the origin of a paint of the display list
C22_HiddenSubtreeSkipped ==
    \A n \in LayoutNodes :
        InHiddenSubtree(n) =>
            /\ ~HasBox(n)
            /\ ~IsInline(n)
            /\ \A k \in DOMAIN dc_display_list : dc_display_list[k].node # n

RECURSIVE Covered(_, _)
\* the nodes the boxes ids[k..] stand for, in order
Covered(ids, k) ==
    IF k > Len(ids) THEN <<>>
    ELSE (IF layouts[ids[k]].node # 0 THEN <<layouts[ids[k]].node>>
          ELSE layouts[ids[k]].inlines)
         \o Covered(ids, k + 1)

RECURSIVE NotSkipped(_, _)
\* the children cs[k..] that f does not skip
NotSkipped(cs, k) ==
    IF k > Len(cs) THEN <<>>
    ELSE (IF is_block_level(cs[k]) \/ ~is_skippable(cs[k]) THEN <<cs[k]>> ELSE <<>>)
         \o NotSkipped(cs, k + 1)

\* the boxes f made for layout b, in order: its children so far, then those
\* its activation has not placed yet
BoxesMade(b) ==
    layouts[b].children
    \o (IF \E c \in DOMAIN calls : calls[c].self = b /\ calls[c].at = "children"
        THEN LET c == CHOOSE c \in DOMAIN calls : calls[c].self = b
             IN  SubSeq(calls[c].boxes, Len(layouts[b].children) + 1, Len(calls[c].boxes))
        ELSE <<>>)

\* C23: a layout never has both boxes and inlines; an anonymous box holds a
\* maximal run of children that get no box of their own (never empty, never
\* next to another anonymous box), and is made only next to a box with a
\* node; the boxes of a layout with a node, in order, stand for the
\* children of the node that are not skipped, in document order, each once
C23_BoxesOrInlines ==
    \A b \in Generated :
        LET made == BoxesMade(b)
        IN  /\ made = <<>> \/ layouts[b].inlines = <<>>
            /\ \A k \in DOMAIN made :
                  layouts[made[k]].node = 0 =>
                      /\ layouts[made[k]].inlines # <<>>
                      /\ \E j \in DOMAIN made : layouts[made[j]].node # 0
                      /\ k > 1 => layouts[made[k - 1]].node # 0
            /\ layouts[b].node # 0 =>
                  Covered(made, 1) \o layouts[b].inlines
                      = NotSkipped(lay_dom[layouts[b].node].children, 1)

\* layout has returned on a document whose children are an inline, a
\* block and an inline: the document's layout has an anonymous box, the
\* box of the block and another anonymous box
C23_Witness ==
    /\ laying = "returned"
    /\ Len(layouts[1].children) = 3
    /\ layouts[layouts[1].children[1]].node = 0
    /\ layouts[layouts[1].children[2]].node # 0
    /\ layouts[layouts[1].children[3]].node = 0

----------------------------------------------------------------------------
(* Block and inline geometry (SpecLayout) *)

\* the top of the content rectangle of layout b
ContentTop(b) ==
    IF layouts[b].node = 0 THEN layouts[b].rect.top
    ELSE layouts[b].rect.top + Unwrap(layouts[b].margin.top)
         + Unwrap(layouts[b].border.top) + Unwrap(layouts[b].padding.top)

\* C24: after layout the rectangle of every box contains the rectangles of
\* its child boxes vertically, the first child starts at the top of the
\* content rectangle of the box and every other child at the bottom of its
\* previous sibling
C24_ChildrenContained ==
    laying = "returned" =>
        \A b \in DOMAIN layouts :
            \A k \in DOMAIN layouts[b].children :
                LET c == layouts[layouts[b].children[k]]
                IN  /\ layouts[b].rect.top <= c.rect.top
                    /\ c.rect.top <= c.rect.bottom
                    /\ c.rect.bottom <= layouts[b].rect.bottom
                    /\ c.rect.top = IF k = 1 THEN ContentTop(b)
                                    ELSE layouts[layouts[b].children[k - 1]].rect.bottom

\* an element of lay_dom with a border width in percent
PercentBorder(n) ==
    /\ lay_dom[n].type = "Element"
    /\ \E side \in Sides :
          /\ IsSome(lay_dom[n].style.border_width[side])
          /\ Unwrap(lay_dom[n].style.border_width[side]).unit = "Percent"

\* C25: at every flush the cursor is not right of the right edge of the
\* content rectangle, and the paints of the line are in increasing order of
\* their left edges
C25_LinesFit ==
    \A f \in DOMAIN flushes :
        /\ flushes[f].x <= flushes[f].right
        /\ \A j, k \in DOMAIN flushes[f].line :
              j < k => flushes[f].line[j].rect.left < flushes[f].line[k].rect.left

\* C26: the layout of a document never fails, and a border side given in
\* percent is a border of width 0 in the box of its element
C26_PercentBorderIsZero ==
    /\ laying # "panicked"
    /\ \A b \in DOMAIN layouts :
          layouts[b].node # 0 /\ PercentBorder(layouts[b].node) =>
              \A side \in Sides : layouts[b].border[side] = SomeOf(0)

----------------------------------------------------------------------------
(* css_file (SpecCss) *)

\* seg is an identifier followed by `{` and `}`
WellFormedRule(seg) ==
    /\ Len(seg) >= 3
    /\ IsAlpha(seg[1])
    /\ \A i \in 2..(Len(seg) - 2) : IsAlnum(seg[i])
    /\ seg[Len(seg) - 1] = 123
    /\ seg[Len(seg)] = 125

RECURSIVE RulesBySegment(_)
\* the text cut after each `}`: the selectors of the pieces that are
\* well-formed rules, in order; what follows the last `}` is no rule
RulesBySegment(s) ==
    LET closes == { i \in DOMAIN s : s[i] = 125 }
        first == CHOOSE i \in closes : \A j \in closes : i <= j
    IN  IF closes = {} THEN <<>>
        ELSE (IF WellFormedRule(SubSeq(s, 1, first)) THEN <<SubSeq(s, 1, first - 2)>>
              ELSE <<>>)
             \o RulesBySegment(SubSeq(s, first + 1, Len(s)))

\* what css_file has consumed of its text
CssConsumed == SubSeq(css_text, 1, Len(css_text) - Len(css_input))

\* css_file is at a place where a rule may start: at the start of the text,
\* after a `}`, or at the end
AtRuleBoundary ==
    \/ CssConsumed = <<>>
    \/ CssConsumed[Len(CssConsumed)] = 125
    \/ css_input = <<>>

----------------------------------------------------------------------------
(* The tokenizer (SpecLexer) *)

\* C28: on every input that is not empty html_token succeeds and leaves
\* less than it was given, so that every token of the loop has consumed a
\* character and the loop ends neither with an error nor with a panic; a
\* `<` or `&` at which no construct and no entity starts becomes a text
\* token of that one character
C28_TokenizerNeverFails ==
    /\ html_pc \notin {"error", "panicked"}
    /\ Len(html_tokens) + Len(html_input) <= Len(html_body)
    /\ html_input # <<>> =>
          LET result == html_token(html_input)
          IN  /\ result.ok
              /\ Len(result.rest) < Len(html_input)
              /\ (/\ result.token.kind = "Text"
                  /\ html_input[1] \in {"<", "&"}
                  /\ ~StartsWith(html_input, Amp)) =>
                     /\ result.token.text = Take(html_input, 1)
                     /\ result.rest = Drop(html_input, 1)

\* the loop has ended on a body with a bare `<` and a bare `&`, each of
\* which became a text token of one character
C28_Witness ==
    /\ html_pc = "returned"
    /\ \E i, j \in DOMAIN html_tokens :
          /\ html_tokens[i] = [kind |-> "Text", text |-> <<"<">>]
          /\ html_tokens[j] = [kind |-> "Text", text |-> <<"&">>]
          /\ ~\E k \in DOMAIN html_body : StartsWith(Drop(html_body, k - 1), Amp)

----------------------------------------------------------------------------
(* The driver's load and layout (SpecBrowser) *)

\* C29: a document in the Loaded state holds the page served at its own
\* location, the one go recorded
C29_LoadedOwnResponse ==
    next_document.status = "Loaded" =>
        next_document.response_body = PageOf(next_document.location)

\* C30: a LaidOut document never records the viewport of
\* ViewportInfo::default(), whose rectangle and scale are NaN
C30_LaidOutViewportValid ==
    /\ document.status = "LaidOut" => document.viewport # NaNViewport
    /\ next_document.status = "LaidOut" => next_document.viewport # NaNViewport

====
